---- MODULE Spec2Model ----
(***************************************************************************)
(* A model of searcherer: the Dictionary (pattern set, per-mode cache of   *)
(* compiled regular expressions, the search generator) and the Searcherer  *)
(* (dictionary set, line splitting, search with its events).               *)
(*                                                                         *)
(* Strings are sequences of one-character strings, so that indexing,      *)
(* substring and splitting are computed.  Columns and lastIndex are        *)
(* 0-based as in JavaScript; TLA+ sequences are 1-based, so the character  *)
(* at JavaScript index i of s is s[i + 1].                                 *)
(***************************************************************************)
EXTENDS Integers, Sequences, FiniteSets, TLC

\* ------------------------------------------------------------------------
\* Bounds of the model and the input domains
\* ------------------------------------------------------------------------

\* longest text handed to Searcherer#search
MaxTextLen == 3

\* most patterns held by the dictionaries of the Searcherer, all together
\* (every dictionary holds at least one, so this bounds the dictionaries too)
MaxPatterns == 2

\* a search that has gathered this many results is not stepped further
MaxResults == 7

LF == "\n"

CR == "\r"

\* the characters of the texts that are searched
TextChars == {"a", "A", LF}

\* the characters of the lines handed to Dictionary#search directly
LineChars == {"a", "A"}

\* the patterns dictionaries are built from: literals, a pattern that can
\* match the empty string, and a pattern that does not compile
PatternPool == {<<"a">>, <<"a", "a">>, <<"a", "*">>, <<"(">>}

\* value of a missing string argument (null or undefined)
Null == <<"null">>

\* values of options.caseSensitive
CaseOptions == {"undefined", "false", "true"}

\* options.filter is absent; a filter that is given is a predicate, kept as
\* the set of the Dictionary objects it returns true for
NoFilter == [given |-> FALSE, accepts |-> {}]

\* all sequences over S of length 0..n
RECURSIVE SeqsUpTo(_, _)
SeqsUpTo(S, n) ==
  IF n = 0 THEN {<<>>}
  ELSE LET shorter == SeqsUpTo(S, n - 1)
       IN shorter \cup {Append(s, c) : s \in {t \in shorter : Len(t) = n - 1}, c \in S}

\* texts with a carriage return: alone, before a line feed, after one
BreakTexts == {t \in SeqsUpTo({"a", CR, LF}, 3) : \E i \in 1..Len(t) : t[i] = CR}

Texts == SeqsUpTo(TextChars, MaxTextLen) \cup BreakTexts

\* arrays of patterns passed to addDictionary / new Dictionary
PatternArrays == {ps \in SeqsUpTo(PatternPool, 2) : Len(ps) >= 1}

\* ------------------------------------------------------------------------
\* JavaScript primitives used by the code
\* ------------------------------------------------------------------------

\* Boolean(options.caseSensitive)
ToBoolean(v) == v = "true"

\* (variant: only null and undefined are turned away, as by value == null)
FalsyNullOnly(value) == value = Null

\* !value of a string argument: null, undefined and '' are falsy
Falsy(value) == value = Null \/ value = <<>>

\* Canonicalize of a character under the i flag
Canonicalize(c) ==
  IF c = "a" THEN "A" ELSE c

\* s.substring(from, to) for 0 <= from <= to: 0-based, to exclusive, both
\* clamped to the length of s
Substring(s, from, to) ==
  LET lo == IF from > Len(s) THEN Len(s) ELSE from
      hi == IF to > Len(s) THEN Len(s) ELSE to
  IN SubSeq(s, lo + 1, hi)

\* new Set(array): the distinct elements in order of first occurrence
RECURSIVE NewSet(_)
NewSet(arr) ==
  IF arr = <<>> THEN <<>>
  ELSE LET init == NewSet(SubSeq(arr, 1, Len(arr) - 1))
           last == arr[Len(arr)]
       IN IF \E i \in 1..Len(init) : init[i] = last THEN init ELSE Append(init, last)

\* (variant: value.split(/\r|\n/g), a line feed after a carriage return is
\* a break of its own)
RECURSIVE SplitFromEachBreak(_, _, _)
SplitFromEachBreak(value, i, cur) ==
  IF i > Len(value) THEN <<cur>>
  ELSE IF value[i] \in {LF, CR} THEN <<cur>> \o SplitFromEachBreak(value, i + 1, <<>>)
  ELSE SplitFromEachBreak(value, i + 1, Append(cur, value[i]))

\* value.split(/\r\n?|\n/g): cur is the line being gathered, i the 1-based
\* position of the next character
RECURSIVE SplitFrom(_, _, _)
SplitFrom(value, i, cur) ==
  IF i > Len(value) THEN <<cur>>
  ELSE IF value[i] = LF THEN <<cur>> \o SplitFrom(value, i + 1, <<>>)
  ELSE IF value[i] = CR
       THEN IF i < Len(value) /\ value[i + 1] = LF
            THEN <<cur>> \o SplitFrom(value, i + 2, <<>>)
            ELSE <<cur>> \o SplitFrom(value, i + 1, <<>>)
  ELSE SplitFrom(value, i + 1, Append(cur, value[i]))

Split(value) == SplitFrom(value, 1, <<>>)

\* ------------------------------------------------------------------------
\* RegExp: new RegExp(pattern, flags) and RegExp.prototype.exec with the g flag
\* ------------------------------------------------------------------------

\* The pattern syntax of the model: a character other than ( and * matches
\* itself, x* matches x zero or more times, a ( is never closed and a * that
\* follows no character has nothing to repeat.  Parsing from the 1-based
\* position i; ok is FALSE where the RegExp constructor throws SyntaxError.
RECURSIVE ParsePattern(_, _)
ParsePattern(pattern, i) ==
  IF i > Len(pattern) THEN [ok |-> TRUE, atoms |-> <<>>]
  ELSE IF pattern[i] \in {"(", "*"} THEN [ok |-> FALSE, atoms |-> <<>>]
  ELSE LET star == i < Len(pattern) /\ pattern[i + 1] = "*"
           rest == ParsePattern(pattern, IF star THEN i + 2 ELSE i + 1)
       IN [ok |-> rest.ok,
           atoms |-> <<[char |-> pattern[i], star |-> star]>> \o rest.atoms]

\* new RegExp(pattern, flags) throws
SyntaxError(pattern) == ~ParsePattern(pattern, 1).ok

\* a character of the line against a character of the pattern
CharMatches(c, pc, ignoreCase) ==
  IF ignoreCase THEN Canonicalize(c) = Canonicalize(pc) ELSE c = pc

\* how many characters from JavaScript index pos on match pc
RECURSIVE RunLength(_, _, _, _)
RunLength(line, pos, pc, ignoreCase) ==
  IF pos < Len(line) /\ CharMatches(line[pos + 1], pc, ignoreCase)
  THEN 1 + RunLength(line, pos + 1, pc, ignoreCase)
  ELSE 0

\* The backtracking matcher: the end index of the match of atoms k.. that
\* starts at index pos, or -1.  A starred atom is greedy: it first takes the
\* longest run (n characters) and gives characters back one at a time.
RECURSIVE MatchEnd(_, _, _, _, _)
RECURSIVE MatchStar(_, _, _, _, _, _)
MatchEnd(atoms, k, line, pos, ignoreCase) ==
  IF k > Len(atoms) THEN pos
  ELSE IF atoms[k].star
       THEN MatchStar(atoms, k, line, pos, ignoreCase,
                      RunLength(line, pos, atoms[k].char, ignoreCase))
  ELSE IF pos < Len(line) /\ CharMatches(line[pos + 1], atoms[k].char, ignoreCase)
       THEN MatchEnd(atoms, k + 1, line, pos + 1, ignoreCase)
  ELSE -1

MatchStar(atoms, k, line, pos, ignoreCase, n) ==
  LET end == MatchEnd(atoms, k + 1, line, pos + n, ignoreCase)
  IN IF end # -1 THEN end
     ELSE IF n = 0 THEN -1
     ELSE MatchStar(atoms, k, line, pos, ignoreCase, n - 1)

\* the first index >= from at which the atoms match, or -1
RECURSIVE FindFrom(_, _, _, _)
FindFrom(atoms, line, from, ignoreCase) ==
  IF from > Len(line) THEN -1
  ELSE IF MatchEnd(atoms, 1, line, from, ignoreCase) # -1 THEN from
  ELSE FindFrom(atoms, line, from + 1, ignoreCase)

\* regExp.exec(line) of the regular expression new RegExp(pattern, flags)
\* whose lastIndex is lastIndex: the match (index, match[0]) or null, and the
\* new lastIndex.  With the g flag the search starts at lastIndex, a match
\* sets lastIndex to its end and a failure sets it to 0; without the g flag
\* the search starts at 0 and lastIndex stays as it is.
Exec(pattern, flags, lastIndex, line) ==
  LET atoms == ParsePattern(pattern, 1).atoms
      start == IF flags.global THEN lastIndex ELSE 0
      index == IF start > Len(line) THEN -1
               ELSE FindFrom(atoms, line, start, flags.ignoreCase)
  IN IF index = -1
     THEN [found |-> FALSE, index |-> 0, match |-> <<>>,
           lastIndex |-> IF flags.global THEN 0 ELSE lastIndex]
     ELSE LET end == MatchEnd(atoms, 1, line, index, flags.ignoreCase)
          IN [found |-> TRUE, index |-> index, match |-> Substring(line, index, end),
              lastIndex |-> IF flags.global THEN end ELSE lastIndex]

\* ------------------------------------------------------------------------
\* JavaScript values, JSON.stringify and JSON.parse
\* ------------------------------------------------------------------------

\* A JavaScript value that is an option, a dictionary source or the outcome
\* of JSON.parse: the tag t is its type, v what it holds.  An array holds
\* the sequence of its elements, an object the sequence of its properties
\* in insertion order.
Undefined == [t |-> "undefined"]

JsNull == [t |-> "null"]

Bool(b) == [t |-> "boolean", v |-> b]

Num(n) == [t |-> "number", v |-> n]

Str(s) == [t |-> "string", v |-> s]

Arr(elements) == [t |-> "array", v |-> elements]

Obj(properties) == [t |-> "object", v |-> properties]

Prop(key, value) == [key |-> key, value |-> value]

\* the value as a condition (ToBoolean): undefined, null, false, 0 and ''
\* are falsy
Truthy(x) ==
  CASE x.t \in {"undefined", "null"} -> FALSE
    [] x.t = "boolean" -> x.v
    [] x.t = "number" -> x.v # 0
    [] x.t = "string" -> x.v # <<>>
    [] OTHER -> TRUE

\* a || b
Or(a, b) == IF Truthy(a) THEN a ELSE b

\* x.key for a property name other than length: the property of an object
\* set last under that name; undefined for an object without it and for a
\* string, a number, a boolean and an array
RECURSIVE GetFrom(_, _, _)
GetFrom(properties, key, i) ==
  IF i = 0 THEN Undefined
  ELSE IF properties[i].key = key THEN properties[i].value
  ELSE GetFrom(properties, key, i - 1)

Get(x, key) ==
  IF x.t = "object" THEN GetFrom(x.v, key, Len(x.v)) ELSE Undefined

DigitChars == <<"0", "1", "2", "3", "4", "5", "6", "7", "8", "9">>

IsDigit(c) == \E n \in 1..Len(DigitChars) : DigitChars[n] = c

DigitValue(c) == (CHOOSE n \in 1..Len(DigitChars) : DigitChars[n] = c) - 1

\* the decimal digits of a natural number
RECURSIVE DigitsOf(_)
DigitsOf(n) ==
  IF n < 10 THEN <<DigitChars[n + 1]>>
  ELSE Append(DigitsOf(n \div 10), DigitChars[(n % 10) + 1])

\* the characters of a string between the quotes of its JSON form: a quote
\* and a backslash are escaped, a line break is written \n or \r
RECURSIVE QuoteFrom(_, _)
QuoteFrom(s, i) ==
  IF i > Len(s) THEN <<>>
  ELSE (CASE s[i] \in {"\"", "\\"} -> <<"\\", s[i]>>
          [] s[i] = LF -> <<"\\", "n">>
          [] s[i] = CR -> <<"\\", "r">>
          [] OTHER -> <<s[i]>>) \o QuoteFrom(s, i + 1)

Quote(s) == <<"\"">> \o QuoteFrom(s, 1) \o <<"\"">>

\* JSON.stringify(x) of a value without undefined at its top: the elements
\* and properties are separated by commas, no white space is written, an
\* undefined element is written null and an undefined property is left out
RECURSIVE JsonStringify(_)
RECURSIVE StringifyElements(_, _)
RECURSIVE StringifyProperties(_, _, _)
JsonStringify(x) ==
  CASE x.t = "null" -> <<"n", "u", "l", "l">>
    [] x.t = "boolean" -> IF x.v THEN <<"t", "r", "u", "e">> ELSE <<"f", "a", "l", "s", "e">>
    [] x.t = "number" -> DigitsOf(x.v)
    [] x.t = "string" -> Quote(x.v)
    [] x.t = "array" -> <<"[">> \o StringifyElements(x.v, 1) \o <<"]">>
    [] OTHER -> <<"{">> \o StringifyProperties(x.v, 1, TRUE) \o <<"}">>

StringifyElements(elements, i) ==
  IF i > Len(elements) THEN <<>>
  ELSE (IF i > 1 THEN <<",">> ELSE <<>>)
       \o (IF elements[i].t = "undefined" THEN JsonStringify(JsNull)
           ELSE JsonStringify(elements[i]))
       \o StringifyElements(elements, i + 1)

StringifyProperties(properties, i, first) ==
  IF i > Len(properties) THEN <<>>
  ELSE IF properties[i].value.t = "undefined"
       THEN StringifyProperties(properties, i + 1, first)
  ELSE (IF first THEN <<>> ELSE <<",">>)
       \o Quote(properties[i].key) \o <<":">> \o JsonStringify(properties[i].value)
       \o StringifyProperties(properties, i + 1, FALSE)

\* JSON.parse: a recursive descent over the characters of the text.  The
\* grammar of the model: null, true, false, natural numbers, strings with
\* the escapes \" \\ \n \r, arrays and objects, with white space between the
\* tokens.  A parser returns the value and the position after it, or
\* ok = FALSE where JSON.parse throws SyntaxError.
ParseFailed == [ok |-> FALSE, value |-> JsNull, next |-> 0]

Parsed(value, next) == [ok |-> TRUE, value |-> value, next |-> next]

RECURSIVE SkipWhiteSpace(_, _)
SkipWhiteSpace(text, i) ==
  IF i <= Len(text) /\ text[i] \in {" ", LF, CR}
  THEN SkipWhiteSpace(text, i + 1)
  ELSE i

StartsWith(text, i, word) ==
  /\ i + Len(word) - 1 <= Len(text)
  /\ SubSeq(text, i, i + Len(word) - 1) = word

\* the string whose opening quote stands before position i
RECURSIVE ParseString(_, _, _)
ParseString(text, i, acc) ==
  IF i > Len(text) THEN ParseFailed
  ELSE IF text[i] = "\"" THEN Parsed(Str(acc), i + 1)
  ELSE IF text[i] \in {LF, CR} THEN ParseFailed
  ELSE IF text[i] = "\\"
       THEN IF i + 1 > Len(text) THEN ParseFailed
            ELSE CASE text[i + 1] \in {"\"", "\\"} ->
                        ParseString(text, i + 2, Append(acc, text[i + 1]))
                   [] text[i + 1] = "n" -> ParseString(text, i + 2, Append(acc, LF))
                   [] text[i + 1] = "r" -> ParseString(text, i + 2, Append(acc, CR))
                   [] OTHER -> ParseFailed
  ELSE ParseString(text, i + 1, Append(acc, text[i]))

\* the digits of a number from position i on; a number that starts with 0
\* is 0
RECURSIVE ParseDigits(_, _, _)
ParseDigits(text, i, n) ==
  IF i <= Len(text) /\ IsDigit(text[i])
  THEN ParseDigits(text, i + 1, 10 * n + DigitValue(text[i]))
  ELSE Parsed(Num(n), i)

RECURSIVE ParseValue(_, _)
RECURSIVE ParseElements(_, _, _)
RECURSIVE ParseProperties(_, _, _)
ParseValue(text, from) ==
  LET i == SkipWhiteSpace(text, from)
  IN IF i > Len(text) THEN ParseFailed
     ELSE IF StartsWith(text, i, <<"n", "u", "l", "l">>) THEN Parsed(JsNull, i + 4)
     ELSE IF StartsWith(text, i, <<"t", "r", "u", "e">>) THEN Parsed(Bool(TRUE), i + 4)
     ELSE IF StartsWith(text, i, <<"f", "a", "l", "s", "e">>) THEN Parsed(Bool(FALSE), i + 5)
     ELSE IF text[i] = "0" THEN Parsed(Num(0), i + 1)
     ELSE IF IsDigit(text[i]) THEN ParseDigits(text, i, 0)
     ELSE IF text[i] = "\"" THEN ParseString(text, i + 1, <<>>)
     ELSE IF text[i] = "["
          THEN LET j == SkipWhiteSpace(text, i + 1)
               IN IF j <= Len(text) /\ text[j] = "]" THEN Parsed(Arr(<<>>), j + 1)
                  ELSE ParseElements(text, j, <<>>)
     ELSE IF text[i] = "{"
          THEN LET j == SkipWhiteSpace(text, i + 1)
               IN IF j <= Len(text) /\ text[j] = "}" THEN Parsed(Obj(<<>>), j + 1)
                  ELSE ParseProperties(text, j, <<>>)
     ELSE ParseFailed

\* the elements of an array from position i on, after those of acc
ParseElements(text, i, acc) ==
  LET e == ParseValue(text, i)
      j == SkipWhiteSpace(text, e.next)
  IN IF ~e.ok \/ j > Len(text) THEN ParseFailed
     ELSE IF text[j] = "," THEN ParseElements(text, j + 1, Append(acc, e.value))
     ELSE IF text[j] = "]" THEN Parsed(Arr(Append(acc, e.value)), j + 1)
     ELSE ParseFailed

\* the properties of an object from position i on, after those of acc
ParseProperties(text, i, acc) ==
  LET k == SkipWhiteSpace(text, i)
  IN IF k > Len(text) \/ text[k] # "\"" THEN ParseFailed
     ELSE LET key == ParseString(text, k + 1, <<>>)
              c == SkipWhiteSpace(text, key.next)
          IN IF ~key.ok \/ c > Len(text) \/ text[c] # ":" THEN ParseFailed
             ELSE LET val == ParseValue(text, c + 1)
                      j == SkipWhiteSpace(text, val.next)
                      property == Prop(key.value.v, val.value)
                  IN IF ~val.ok \/ j > Len(text) THEN ParseFailed
                     ELSE IF text[j] = "," THEN ParseProperties(text, j + 1, Append(acc, property))
                     ELSE IF text[j] = "}" THEN Parsed(Obj(Append(acc, property)), j + 1)
                     ELSE ParseFailed

\* JSON.parse(text): the value, or ok = FALSE for a SyntaxError; the text is
\* one value with nothing but white space around it
JsonParse(text) ==
  LET r == ParseValue(text, 1)
  IN IF r.ok /\ SkipWhiteSpace(text, r.next) = Len(text) + 1
     THEN [ok |-> TRUE, value |-> r.value]
     ELSE [ok |-> FALSE, value |-> JsNull]

\* ------------------------------------------------------------------------
\* Dictionary
\* ------------------------------------------------------------------------

\* a mode of the Dictionary's regExpMaps that was never built
NoRegExpMap == [built |-> FALSE, builds |-> 0, lastIndex |-> <<>>]

\* the name of a Dictionary constructed without one
UnknownName == <<"<unknown>">>

\* new Dictionary(options) for the name options.name (Null when there is
\* none) and the values that new Set(options.patterns || []) iterates over:
\* the name, the Set of the patterns (in insertion
\* order) and the empty Map of regExpMaps.  A built regExpMap holds one
\* RegExp per pattern, in the order of the patterns; what changes of a
\* RegExp is its lastIndex, so the map is kept as the lastIndex of each,
\* with the number of maps that were built for the mode.  type is the
\* class the object is an instance of.
NewDictionary(name, patterns) ==
  [type |-> "Dictionary",
   name |-> IF name = Null \/ name = <<>> THEN UnknownName ELSE name,
   patterns |-> NewSet(patterns),
   regExpMaps |-> [m \in BOOLEAN |-> NoRegExpMap]]

NameKey == <<"n", "a", "m", "e">>

PatternsKey == <<"p", "a", "t", "t", "e", "r", "n", "s">>

\* new Set(iterable) takes the elements of an array and the characters of
\* a string; undefined and null give the empty Set; any other value is not
\* iterable (TypeError)
IsIterable(x) == x.t \in {"array", "string"}

\* the values an iterable is iterated as (the arrays of the model hold
\* strings): each element of an array, each character of a string
Iterate(x) ==
  IF x.t = "array" THEN [i \in 1..Len(x.v) |-> x.v[i].v]
  ELSE [i \in 1..Len(x.v) |-> <<x.v[i]>>]

\* the outcome of an operation that returns a Dictionary or null, or throws
ReturnsNull == [kind |-> "null", error |-> "", dict |-> NewDictionary(Null, <<>>)]

Returns(dict) == [kind |-> "dictionary", error |-> "", dict |-> dict]

Throws(error) == [kind |-> "throw", error |-> error, dict |-> NewDictionary(Null, <<>>)]

\* new Dictionary(options) for an options object (the names of the model
\* are strings): name is options.name || '<unknown>', the patterns are
\* new Set(options.patterns || [])
NewDictionaryOf(options) ==
  LET name == Get(options, NameKey)
      patterns == Or(Get(options, PatternsKey), Arr(<<>>))
  IN IF ~IsIterable(patterns) THEN Throws("TypeError")
     ELSE Returns(NewDictionary(IF Truthy(name) THEN name.v ELSE Null, Iterate(patterns)))

\* (variant: the defaults come first, defaults.name || data.name)
DictionaryParseDefaultsFirst(str, defaults) ==
  IF str = Null THEN ReturnsNull
  ELSE LET json == JsonParse(str)
           data == json.value
       IN IF ~json.ok THEN Throws("SyntaxError")
          ELSE IF data.t = "null" THEN ReturnsNull
          ELSE IF data.t = "array" THEN NewDictionaryOf(Obj(<<Prop(PatternsKey, data)>>))
          ELSE NewDictionaryOf(Obj(<<
                 Prop(NameKey, Or(Get(defaults, NameKey), Get(data, NameKey))),
                 Prop(PatternsKey, Or(Get(defaults, PatternsKey), Get(data, PatternsKey)))>>))

\* Dictionary.parse(str, defaults): null for a str that is null or
\* undefined and for data that is null; SyntaxError where JSON.parse throws;
\* a Dictionary of the patterns for an array; for any other data a
\* Dictionary of data.name || defaults.name and
\* data.patterns || defaults.patterns
DictionaryParse(str, defaults) ==
  IF str = Null THEN ReturnsNull
  ELSE LET json == JsonParse(str)
           data == json.value
       IN IF ~json.ok THEN Throws("SyntaxError")
          ELSE IF data.t = "null" THEN ReturnsNull
          ELSE IF data.t = "array" THEN NewDictionaryOf(Obj(<<Prop(PatternsKey, data)>>))
          ELSE NewDictionaryOf(Obj(<<
                 Prop(NameKey, Or(Get(data, NameKey), Get(defaults, NameKey))),
                 Prop(PatternsKey, Or(Get(data, PatternsKey), Get(defaults, PatternsKey)))>>))

\* (variant: the i flag is never set)
FlagsNoIgnoreCase(caseSensitive) == [global |-> TRUE, ignoreCase |-> FALSE]

\* (variant: the g flag is missing)
FlagsNotGlobal(caseSensitive) == [global |-> FALSE, ignoreCase |-> ~caseSensitive]

\* the flags _createRegExpMap compiles the patterns of a mode with:
\* 'g' when case-sensitive, 'gi' otherwise
Flags(caseSensitive) == [global |-> TRUE, ignoreCase |-> ~caseSensitive]

\* Dictionary#has
Has(dict, pattern) == \E k \in 1..Len(dict.patterns) : dict.patterns[k] = pattern

\* (variant: the new map is stored in regExpMaps before its patterns are
\* compiled, so that it is there after a pattern did not compile)
CreateRegExpMapStoredFirst(dict, caseSensitive) ==
  IF dict.regExpMaps[caseSensitive].built
  THEN [threw |-> FALSE, dict |-> dict]
  ELSE [threw |-> \E k \in 1..Len(dict.patterns) : SyntaxError(dict.patterns[k]),
        dict |-> [dict EXCEPT !.regExpMaps[caseSensitive] =
                    [built |-> TRUE, builds |-> @.builds + 1,
                     lastIndex |-> [k \in 1..Len(dict.patterns) |-> 0]]]]

\* (variant: the map of the mode is built on every call, the stored map is
\* never looked up)
CreateRegExpMapNoCache(dict, caseSensitive) ==
  IF \E k \in 1..Len(dict.patterns) : SyntaxError(dict.patterns[k])
  THEN [threw |-> TRUE, dict |-> dict]
  ELSE [threw |-> FALSE,
        dict |-> [dict EXCEPT !.regExpMaps[caseSensitive] =
                    [built |-> TRUE, builds |-> @.builds + 1,
                     lastIndex |-> [k \in 1..Len(dict.patterns) |-> 0]]]]

\* Dictionary#[_createRegExpMap](caseSensitive): the cached map of the mode,
\* or a new map that is stored once every pattern has compiled; threw is
\* TRUE when a pattern does not compile, and then nothing is stored.
CreateRegExpMap(dict, caseSensitive) ==
  IF dict.regExpMaps[caseSensitive].built
  THEN [threw |-> FALSE, dict |-> dict]
  ELSE IF \E k \in 1..Len(dict.patterns) : SyntaxError(dict.patterns[k])
  THEN [threw |-> TRUE, dict |-> dict]
  ELSE [threw |-> FALSE,
        dict |-> [dict EXCEPT !.regExpMaps[caseSensitive] =
                    [built |-> TRUE, builds |-> @.builds + 1,
                     lastIndex |-> [k \in 1..Len(dict.patterns) |-> 0]]]]

\* a Dictionary#search generator that has not run yet: its body starts on
\* the first next()
NewGenerator == [started |-> FALSE, k |-> 1]

\* (variant: the column is taken from the end of the match, as from
\* regExp.lastIndex)
YieldResultLastIndex(d, context, pattern, m) ==
  [columnNumber |-> m.index + Len(m.match),
   dictionary |-> d,
   line |-> context.line,
   lineNumber |-> context.lineNumber,
   match |-> m.match,
   pattern |-> pattern]

\* the Result that Dictionary#search yields for a match
YieldResult(d, context, pattern, m) ==
  [columnNumber |-> m.index,
   dictionary |-> d,
   line |-> context.line,
   lineNumber |-> context.lineNumber,
   match |-> m.match,
   pattern |-> pattern]

\* (variant: an if in place of the while, so that each entry of the
\* regExpMap is asked for one match only)
RECURSIVE SearchLoopIf(_, _, _, _)
SearchLoopIf(d, dict, context, k) ==
  IF k > Len(dict.patterns)
  THEN [kind |-> "done", dict |-> dict, gen |-> [started |-> TRUE, k |-> k]]
  ELSE LET m == Exec(dict.patterns[k], Flags(context.caseSensitive),
                     dict.regExpMaps[context.caseSensitive].lastIndex[k], context.line)
           after == [dict EXCEPT
                       !.regExpMaps[context.caseSensitive].lastIndex[k] = m.lastIndex]
       IN IF m.found
          THEN [kind |-> "yield", dict |-> after, gen |-> [started |-> TRUE, k |-> k + 1],
                result |-> YieldResult(d, context, dict.patterns[k], m)]
          ELSE SearchLoopIf(d, after, context, k + 1)

\* The loops of Dictionary#search from the k-th entry of the regExpMap on,
\* up to the next yield or the end of the generator: exec of the entry's
\* RegExp on the line; a match is yielded and the generator stays in the
\* while loop of this entry, null moves on to the next entry.
RECURSIVE SearchLoop(_, _, _, _)
SearchLoop(d, dict, context, k) ==
  IF k > Len(dict.patterns)
  THEN [kind |-> "done", dict |-> dict, gen |-> [started |-> TRUE, k |-> k]]
  ELSE LET m == Exec(dict.patterns[k], Flags(context.caseSensitive),
                     dict.regExpMaps[context.caseSensitive].lastIndex[k], context.line)
           after == [dict EXCEPT
                       !.regExpMaps[context.caseSensitive].lastIndex[k] = m.lastIndex]
       IN IF m.found
          THEN [kind |-> "yield", dict |-> after, gen |-> [started |-> TRUE, k |-> k],
                result |-> YieldResult(d, context, dict.patterns[k], m)]
          ELSE SearchLoop(d, after, context, k + 1)

\* One next() of the generator gen of Dictionary#search(context) on the
\* Dictionary dict (object number d): "yield" with a Result, "done", or
\* "throw" when a pattern does not compile.  context.caseSensitive is
\* Boolean(context.options.caseSensitive).
GeneratorNext(d, dict, context, gen) ==
  IF gen.started
  THEN SearchLoop(d, dict, context, gen.k)
  ELSE LET map == CreateRegExpMap(dict, context.caseSensitive)
       IN IF map.threw
          THEN [kind |-> "throw", dict |-> map.dict, gen |-> [started |-> TRUE, k |-> 1]]
          ELSE SearchLoop(d, map.dict, context, 1)

\* ------------------------------------------------------------------------
\* Searcherer
\* ------------------------------------------------------------------------

VARIABLES
  dicts,         \* the Dictionary objects created so far; object d is dicts[d]
  dictionaries,  \* this[_dictionaries]: the Set of the Searcherer, in insertion order
  call,          \* the Searcherer#search call in progress or last finished
  events,        \* the events emitted by that call, in order
  it,            \* the Dictionary#search sequence a caller of the Dictionary consumes
  prev,          \* the last sequence such a caller was through with, kept
                 \* as long as no sequence was left before its end
  stopped,       \* some sequence was left before its end
  op,            \* the call in progress or last finished that adds or parses a
                 \* dictionary, with its arguments and its outcome
  dictionaryType,\* this[_dictionaryType]: the class of the Dictionaries the
                 \* Searcherer creates
  arrays,        \* the arrays of patterns that callers of a Dictionary hold
  other,         \* a second Dictionary#search sequence, consumed in turns with it
  reads,         \* the searchFile / searchFileSync calls made, in call order
  log,           \* the events emitted by the Searcherer, each with its call
  cli            \* the run of the command line interface

vars ==
  <<dicts, dictionaries, call, events, it, prev, stopped, op,
    dictionaryType, arrays, other, reads, log, cli>>

\* no call of Searcherer#search was made, or its outcome was taken
NoCall ==
  [pc |-> "idle", value |-> Null, caseSensitive |-> FALSE, filter |-> NoFilter,
   lineNumber |-> 0, k |-> 1, gen |-> NewGenerator, results |-> <<>>, error |-> ""]

\* (variant: the value is searched as one line)
LinesNoSplit(c) == <<c.value>>

\* const lines = value.split(/\r\n?|\n/g)
Lines(c) == Split(c.value)

\* (variant: unshift in place of push)
PushResultFirst(results, result) == <<result>> \o results

\* context.results.push(result)
PushResult(results, result) == Append(results, result)

\* the context that _searchLine hands to Dictionary#search
Context(c) ==
  [line |-> Lines(c)[c.lineNumber + 1],
   lineNumber |-> c.lineNumber,
   caseSensitive |-> c.caseSensitive]

\* this.emit('search', ...)
EmitSearch(ev) == Append(ev, [type |-> "search", results |-> <<>>])

\* (variant: no 'result' event is emitted)
EmitResultNever(ev, result) == ev

\* this.emit('result', { result })
EmitResult(ev, result) == Append(ev, [type |-> "result", results |-> <<result>>])

\* this.emit('end', { options, results, value })
EmitEnd(ev, results) == Append(ev, [type |-> "end", results |-> results])

\* dictionaries.filter(...) in _searchLine: this[_dictionaries] is a Set, and
\* a Set has no filter method, so the call throws a TypeError whatever the
\* predicate accepts
FilterDictionaries(dl, filter) == [threw |-> TRUE, dictionaries |-> <<>>]

\* The control flow of search and _searchLine between two next() calls.
\* SearchLine enters _searchLine for the line c.lineNumber; NextDictionary
\* goes on with the k-th dictionary of the line, with the next line once the
\* dictionaries of the line are through, and with the 'end' event and the
\* return once the lines are through.
RECURSIVE SearchLine(_, _, _)
RECURSIVE NextDictionary(_, _, _)
SearchLine(c, ev, dl) ==
  IF c.filter.given /\ FilterDictionaries(dl, c.filter).threw
  THEN [call |-> [c EXCEPT !.pc = "thrown", !.error = "TypeError"], events |-> ev]
  ELSE NextDictionary([c EXCEPT !.k = 1, !.gen = NewGenerator], ev, dl)

NextDictionary(c, ev, dl) ==
  IF c.k <= Len(dl)
  THEN [call |-> [c EXCEPT !.pc = "lines"], events |-> ev]
  ELSE IF c.lineNumber + 1 < Len(Lines(c))
  THEN SearchLine([c EXCEPT !.lineNumber = @ + 1], ev, dl)
  ELSE [call |-> [c EXCEPT !.pc = "returned"], events |-> EmitEnd(ev, c.results)]

\* Searcherer#search(value, options) up to the first next() of a generator;
\* of options.caseSensitive the search uses Boolean(options.caseSensitive)
BeginSearch(value, caseSensitive, filter, dl) ==
  LET c == [NoCall EXCEPT !.value = value, !.caseSensitive = ToBoolean(caseSensitive),
                          !.filter = filter]
  IN IF Falsy(value)
     THEN [call |-> [c EXCEPT !.pc = "returned"], events |-> <<>>]
     ELSE SearchLine(c, EmitSearch(<<>>), dl)

\* (variant: the error of a dictionary is caught and the search goes on with
\* the next dictionary)
StepSearchSkip(c, ev, hp, dl) ==
  LET d == dl[c.k]
      r == GeneratorNext(d, hp[d], Context(c), c.gen)
      hp2 == [hp EXCEPT ![d] = r.dict]
  IN IF r.kind = "yield"
     THEN [call |-> [c EXCEPT !.gen = r.gen, !.results = PushResult(@, r.result)],
           events |-> EmitResult(ev, r.result), dicts |-> hp2]
     ELSE LET n == NextDictionary([c EXCEPT !.k = @ + 1, !.gen = NewGenerator], ev, dl)
          IN [call |-> n.call, events |-> n.events, dicts |-> hp2]

\* (variant: 'end' is emitted when a dictionary throws, as from a finally
\* block)
StepSearchEndsAlways(c, ev, hp, dl) ==
  LET d == dl[c.k]
      r == GeneratorNext(d, hp[d], Context(c), c.gen)
      hp2 == [hp EXCEPT ![d] = r.dict]
  IN CASE r.kind = "throw" ->
            [call |-> [c EXCEPT !.pc = "thrown", !.error = "SyntaxError"],
             events |-> EmitEnd(ev, c.results), dicts |-> hp2]
       [] r.kind = "yield" ->
            [call |-> [c EXCEPT !.gen = r.gen, !.results = PushResult(@, r.result)],
             events |-> EmitResult(ev, r.result), dicts |-> hp2]
       [] OTHER ->
            LET n == NextDictionary([c EXCEPT !.k = @ + 1, !.gen = NewGenerator], ev, dl)
            IN [call |-> n.call, events |-> n.events, dicts |-> hp2]

\* One next() of the generator of the current dictionary in the for...of of
\* _searchLine, and what follows it: a yielded Result is pushed and its
\* 'result' event emitted; a finished generator moves the search on; a throw
\* ends the call.
StepSearch(c, ev, hp, dl) ==
  LET d == dl[c.k]
      r == GeneratorNext(d, hp[d], Context(c), c.gen)
      hp2 == [hp EXCEPT ![d] = r.dict]
  IN CASE r.kind = "throw" ->
            [call |-> [c EXCEPT !.pc = "thrown", !.error = "SyntaxError"],
             events |-> ev, dicts |-> hp2]
       [] r.kind = "yield" ->
            [call |-> [c EXCEPT !.gen = r.gen, !.results = PushResult(@, r.result)],
             events |-> EmitResult(ev, r.result), dicts |-> hp2]
       [] OTHER ->
            LET n == NextDictionary([c EXCEPT !.k = @ + 1, !.gen = NewGenerator], ev, dl)
            IN [call |-> n.call, events |-> n.events, dicts |-> hp2]

\* patterns held by the dictionaries of the Searcherer
RECURSIVE PatternCount(_, _)
PatternCount(hp, dl) ==
  IF dl = <<>> THEN 0
  ELSE Len(hp[dl[1]].patterns) + PatternCount(hp, Tail(dl))

\* no Dictionary#search sequence is being consumed
NoSequence ==
  [state |-> "none", line |-> <<>>, caseSensitive |-> FALSE, gen |-> NewGenerator,
   out |-> <<>>]

\* the outcome of a call that has not ended (a file is being read)
Pending == [kind |-> "pending", error |-> "", dict |-> NewDictionary(Null, <<>>)]

\* no call that adds or parses a dictionary was made, or its outcome was
\* taken
NoOperation ==
  [name |-> "none", source |-> Undefined, str |-> Null, defaults |-> Obj(<<>>),
   filePath |-> <<>>, result |-> Pending, id |-> 0]

\* the command line interface was not run
NoRun ==
  [state |-> "none", patterns |-> <<>>, caseSensitive |-> FALSE, style |-> Null,
   files |-> <<>>, searched |-> <<>>, output |-> <<>>, error |-> ""]

\* new Searcherer(): no dictionaries
Init ==
  /\ dicts = <<>>
  /\ dictionaries = <<>>
  /\ call = NoCall
  /\ events = <<>>
  /\ it = NoSequence
  /\ prev = NoSequence
  /\ stopped = FALSE
  /\ op = NoOperation
  /\ dictionaryType = "Dictionary"
  /\ arrays = <<>>
  /\ other = NoSequence
  /\ reads = <<>>
  /\ log = <<>>
  /\ cli = NoRun

\* Searcherer#addDictionary(patterns) with an array of patterns: a new
\* Dictionary of the dictionaryType is created and added to the Set
AddDictionary ==
  /\ call.pc = "idle"
  /\ \E patterns \in PatternArrays :
       LET dict == NewDictionary(Null, patterns)
       IN /\ PatternCount(dicts, dictionaries) + Len(dict.patterns) <= MaxPatterns
          /\ dicts' = Append(dicts, dict)
          /\ dictionaries' = Append(dictionaries, Len(dicts) + 1)
  /\ UNCHANGED <<call, events, it, prev, stopped, op,
               dictionaryType, arrays, other, reads, log, cli>>

\* the predicates passed as options.filter
Filters == {[given |-> TRUE, accepts |-> A] : A \in SUBSET (1..Len(dicts))}

\* Searcherer#search(value, options) is called
Search ==
  /\ call.pc = "idle"
  /\ \E value \in Texts \cup {Null}, caseSensitive \in CaseOptions,
        filter \in {NoFilter} \cup Filters :
       LET b == BeginSearch(value, caseSensitive, filter, dictionaries)
       IN /\ call' = b.call
          /\ events' = b.events
  /\ UNCHANGED <<dicts, dictionaries, it, prev, stopped, op,
               dictionaryType, arrays, other, reads, log, cli>>

\* the search goes on by one next() of the current generator
SearchStep ==
  /\ call.pc = "lines"
  /\ Len(call.results) < MaxResults
  /\ LET s == StepSearch(call, events, dicts, dictionaries)
     IN /\ call' = s.call
        /\ events' = s.events
        /\ dicts' = s.dicts
  /\ UNCHANGED <<dictionaries, it, prev, stopped, op,
               dictionaryType, arrays, other, reads, log, cli>>

\* the caller has the outcome of the call (the returned list or the error)
Finish ==
  /\ call.pc \in {"returned", "thrown"}
  /\ call' = NoCall
  /\ events' = <<>>
  /\ UNCHANGED <<dicts, dictionaries, it, prev, stopped, op,
               dictionaryType, arrays, other, reads, log, cli>>

Next == AddDictionary \/ Search \/ SearchStep \/ Finish

Spec == Init /\ [][Next]_vars

\* ------------------------------------------------------------------------
\* A caller that consumes Dictionary#search itself
\* ------------------------------------------------------------------------

\* the lines handed to Dictionary#search
SearchedLines == SeqsUpTo(LineChars, MaxTextLen)

\* the context of the sequence s (one Dictionary, object 1; line number 0)
SequenceContext(s) ==
  [line |-> s.line, lineNumber |-> 0, caseSensitive |-> s.caseSensitive]

\* new Dictionary({ patterns }): one Dictionary, never searched
InitDictionary ==
  /\ \E patterns \in PatternArrays : dicts = <<NewDictionary(Null, patterns)>>
  /\ dictionaries = <<>>
  /\ call = NoCall
  /\ events = <<>>
  /\ it = NoSequence
  /\ prev = NoSequence
  /\ stopped = FALSE
  /\ op = NoOperation
  /\ dictionaryType = "Dictionary"
  /\ arrays = <<>>
  /\ other = NoSequence
  /\ reads = <<>>
  /\ log = <<>>
  /\ cli = NoRun

\* dictionary.search(context) is called: the generator object is created
\* and nothing of its body has run
OpenSequence ==
  /\ it.state = "none"
  /\ \E line \in SearchedLines, caseSensitive \in BOOLEAN :
       it' = [NoSequence EXCEPT !.state = "open", !.line = line,
                                !.caseSensitive = caseSensitive]
  /\ UNCHANGED <<dicts, dictionaries, call, events, prev, stopped, op,
               dictionaryType, arrays, other, reads, log, cli>>

\* the caller takes the next Result: one next() of the generator
TakeNext ==
  /\ it.state = "open"
  /\ Len(it.out) < MaxResults
  /\ LET r == GeneratorNext(1, dicts[1], SequenceContext(it), it.gen)
     IN /\ dicts' = [dicts EXCEPT ![1] = r.dict]
        /\ it' = CASE r.kind = "yield" ->
                        [it EXCEPT !.gen = r.gen, !.out = Append(@, r.result)]
                   [] r.kind = "done" -> [it EXCEPT !.gen = r.gen, !.state = "done"]
                   [] OTHER -> [it EXCEPT !.gen = r.gen, !.state = "threw"]
  /\ UNCHANGED <<dictionaries, call, events, prev, stopped, op,
               dictionaryType, arrays, other, reads, log, cli>>

\* the caller stops after the Results taken so far (a break out of its
\* for...of): the generator is closed where it stands, the RegExp objects of
\* the Dictionary keep their lastIndex
StopEarly ==
  /\ it.state = "open"
  /\ it.out # <<>>
  /\ it' = NoSequence
  /\ prev' = NoSequence
  /\ stopped' = TRUE
  /\ UNCHANGED <<dicts, dictionaries, call, events, op,
               dictionaryType, arrays, other, reads, log, cli>>

\* the caller is through with a sequence that ended (or threw)
CloseSequence ==
  /\ it.state \in {"done", "threw"}
  /\ prev' = IF ~stopped THEN it ELSE NoSequence
  /\ it' = NoSequence
  /\ UNCHANGED <<dicts, dictionaries, call, events, stopped, op,
               dictionaryType, arrays, other, reads, log, cli>>

NextSequence == OpenSequence \/ TakeNext \/ StopEarly \/ CloseSequence

SpecSequence == InitDictionary /\ [][NextSequence]_vars

\* the lines of a second sequence that is consumed in turns with the first,
\* and of the searches of a caller that holds arrays of patterns
OtherLines == {<<"a">>, <<"a", "a">>}

\* dictionary.search(context) is called a second time, in the mode of the
\* sequence that is open or was consumed: a second generator object on the
\* same Dictionary
OpenOther ==
  /\ it.state # "none"
  /\ other.state = "none"
  /\ \E line \in OtherLines :
       other' = [NoSequence EXCEPT !.state = "open", !.line = line,
                                   !.caseSensitive = it.caseSensitive]
  /\ UNCHANGED <<dicts, dictionaries, call, events, it, prev, stopped, op,
                 dictionaryType, arrays, reads, log, cli>>

\* the consumer of the second sequence takes its next Result
TakeOther ==
  /\ other.state = "open"
  /\ Len(other.out) < MaxResults
  /\ LET r == GeneratorNext(1, dicts[1], SequenceContext(other), other.gen)
     IN /\ dicts' = [dicts EXCEPT ![1] = r.dict]
        /\ other' = CASE r.kind = "yield" ->
                           [other EXCEPT !.gen = r.gen, !.out = Append(@, r.result)]
                      [] r.kind = "done" -> [other EXCEPT !.gen = r.gen, !.state = "done"]
                      [] OTHER -> [other EXCEPT !.gen = r.gen, !.state = "threw"]
  /\ UNCHANGED <<dictionaries, call, events, it, prev, stopped, op,
                 dictionaryType, arrays, reads, log, cli>>

\* two consumers of one Dictionary, each with a sequence of its own, taking
\* their Results in any order
NextInterleaved == OpenSequence \/ TakeNext \/ OpenOther \/ TakeOther

SpecInterleaved == InitDictionary /\ [][NextInterleaved]_vars

\* ------------------------------------------------------------------------
\* Adding and parsing dictionaries
\* ------------------------------------------------------------------------

\* most Dictionary objects of the Searcherer
MaxDictionaries == 2

\* an array of strings
StrArr(strings) == Arr([i \in 1..Len(strings) |-> Str(strings[i])])

\* the names of the dictionaries that are serialized: a plain name and a
\* name with a character that JSON escapes
Names == {<<"x">>, <<"q", "\"">>}

\* the arrays of patterns that are serialized or handed to addDictionary
SourceArrays == {<<<<"a">>>>, <<<<"a">>, <<"a", "a">>>>, <<<<"a", "a">>, <<"a", "a">>>>}

\* the values whose JSON form is parsed: null, strings, numbers, booleans,
\* arrays of strings, objects with and without name and patterns
JsonValues ==
  {JsNull, Str(<<>>), Str(<<"a", "a">>), Num(0), Num(1), Bool(TRUE)}
    \cup {StrArr(ps) : ps \in SourceArrays \cup {<<>>}}
    \cup {Obj(<<>>),
          Obj(<<Prop(NameKey, Str(<<"x">>))>>),
          Obj(<<Prop(PatternsKey, Str(<<"a", "a">>))>>),
          Obj(<<Prop(PatternsKey, StrArr(<<<<"a">>>>))>>)}
    \cup {Obj(<<Prop(NameKey, Str(name)), Prop(PatternsKey, StrArr(ps))>>) :
            name \in Names, ps \in SourceArrays \cup {<<>>}}

\* the strings handed to Dictionary.parse and the contents of the files:
\* the JSON forms of the values, the same with a line break at the end, the
\* empty string and texts that are not JSON
JsonTexts ==
  {JsonStringify(x) : x \in JsonValues}
    \cup {Append(JsonStringify(StrArr(<<<<"a">>>>)), LF)}
    \cup {<<>>, <<"a">>, <<"[">>, <<"{", "\"", "a", "\"", "}">>}

\* the defaults handed to Dictionary.parse
Defaults ==
  {Obj(<<>>),
   Obj(<<Prop(NameKey, Str(<<"n">>))>>),
   Obj(<<Prop(NameKey, Str(<<"n">>)), Prop(PatternsKey, StrArr(<<<<"a", "a">>>>))>>)}

\* the paths of the dictionary files
FilePaths == {<<"w">>, <<"d", "/", "w">>}

\* what reading a file gives: its contents, or an error when the file
\* cannot be read
Unreadable == <<"ENOENT">>

FileReads == JsonTexts \cup {Unreadable}

\* path.basename(filePath) of a path that does not end with a separator:
\* what follows its last separator
RECURSIVE LastSeparator(_, _)
LastSeparator(path, i) ==
  IF i = 0 THEN 0
  ELSE IF path[i] = "/" THEN i
  ELSE LastSeparator(path, i - 1)

Basename(path) == SubSeq(path, LastSeparator(path, Len(path)) + 1, Len(path))

\* the classes handed to the Searcherer as option dictionaryType: Dictionary
\* (the default) and a class that extends Dictionary and defines no parse of
\* its own
DictionaryTypes == {"Dictionary", "CustomDictionary"}

\* new DictionaryImpl(options) for a class DictionaryImpl that is Dictionary
\* or extends it: the constructor of Dictionary runs, and the object is an
\* instance of DictionaryImpl
NewInstance(type, options) ==
  LET made == NewDictionaryOf(options)
  IN IF made.kind = "dictionary" THEN Returns([made.dict EXCEPT !.type = type])
     ELSE made

\* (variant: an array in place of the Set, every value is pushed)
SetAddPush(set, x) == Append(set, x)

\* Set#add: a value that is in the Set already is not added again
SetAdd(set, x) ==
  IF \E i \in 1..Len(set) : set[i] = x THEN set ELSE Append(set, x)

\* Searcherer#addDictionary(source) on the objects hp and the Set dl: a
\* string or an array becomes new DictionaryImpl({ patterns: source }); the
\* Dictionary (for a source that is one already, the object source.v) is
\* added to the Set and returned
AddDictionaryOf(source, hp, dl) ==
  IF source.t \in {"string", "array"}
  THEN LET made == NewInstance(dictionaryType, Obj(<<Prop(PatternsKey, source)>>))
           d == Len(hp) + 1
       IN [result |-> made, id |-> d,
           dicts |-> Append(hp, made.dict), dictionaries |-> SetAdd(dl, d)]
  ELSE [result |-> Returns(hp[source.v]), id |-> source.v,
        dicts |-> hp, dictionaries |-> SetAdd(dl, source.v)]

\* (variant: addDictionary is called whatever parseDictionary returned, so
\* that null, here the object 0, is added to the Set)
AddIfDictionaryAlways(parsed, hp, dl) ==
  IF parsed.kind = "dictionary"
  THEN [result |-> parsed, id |-> Len(hp) + 1,
        dicts |-> Append(hp, parsed.dict), dictionaries |-> SetAdd(dl, Len(hp) + 1)]
  ELSE [result |-> parsed, id |-> 0, dicts |-> hp,
        dictionaries |-> IF parsed.kind = "null" THEN SetAdd(dl, 0) ELSE dl]

\* what _addDictionaryFile does with the outcome of parseDictionary: a
\* Dictionary is added to the Set and returned, null is returned, an error
\* of the parsing is thrown
AddIfDictionary(parsed, hp, dl) ==
  IF parsed.kind = "dictionary"
  THEN [result |-> parsed, id |-> Len(hp) + 1,
        dicts |-> Append(hp, parsed.dict), dictionaries |-> SetAdd(dl, Len(hp) + 1)]
  ELSE [result |-> parsed, id |-> 0, dicts |-> hp, dictionaries |-> dl]

\* Searcherer#[_addDictionaryFile](data, filePath): the data is parsed with
\* the base name of the path as the default name
AddParsedDictionary(data, filePath, hp, dl) ==
  AddIfDictionary(DictionaryParse(data, Obj(<<Prop(NameKey, Str(Basename(filePath)))>>)),
                  hp, dl)

\* readFile / readFileSync of the file, then _addDictionaryFile of what was
\* read; an error of the reading is thrown before anything is parsed
ReadAndAdd(read, filePath, hp, dl) ==
  IF read = Unreadable
  THEN [result |-> Throws("Error"), id |-> 0, dicts |-> hp, dictionaries |-> dl]
  ELSE AddParsedDictionary(read, filePath, hp, dl)

\* new Searcherer(), no call made
InitSources ==
  /\ dicts = <<>>
  /\ dictionaries = <<>>
  /\ call = NoCall
  /\ events = <<>>
  /\ it = NoSequence
  /\ prev = NoSequence
  /\ stopped = FALSE
  /\ op = NoOperation
  /\ dictionaryType = "Dictionary"
  /\ arrays = <<>>
  /\ other = NoSequence
  /\ reads = <<>>
  /\ log = <<>>
  /\ cli = NoRun

\* the sources handed to addDictionary: a pattern string, an array of
\* patterns, a Dictionary of the Searcherer
Sources ==
  {Str(pattern) : pattern \in PatternPool}
    \cup {StrArr(ps) : ps \in SourceArrays}
    \cup {[t |-> "dictionary", v |-> d] : d \in 1..Len(dicts)}

\* Searcherer#addDictionary(source) is called (by a caller, or by the
\* constructor for the option dictionary)
AddDictionarySource ==
  /\ op.name = "none"
  /\ \E source \in Sources :
       \E a \in {AddDictionaryOf(source, dicts, dictionaries)} :
          /\ Len(a.dicts) <= MaxDictionaries
          /\ dicts' = a.dicts
          /\ dictionaries' = a.dictionaries
          /\ op' = [NoOperation EXCEPT !.name = "addDictionary", !.source = source,
                                       !.result = a.result, !.id = a.id]
  /\ UNCHANGED <<call, events, it, prev, stopped,
               dictionaryType, arrays, other, reads, log, cli>>

\* Searcherer#parseDictionary(str, defaults), that is Dictionary.parse
ParseDictionary ==
  /\ op.name = "none"
  /\ \E str \in JsonTexts \cup {Null}, defaults \in Defaults :
       op' = [NoOperation EXCEPT !.name = "parseDictionary", !.str = str,
                                 !.defaults = defaults,
                                 !.result = DictionaryParse(str, defaults)]
  /\ UNCHANGED <<dicts, dictionaries, call, events, it, prev, stopped,
               dictionaryType, arrays, other, reads, log, cli>>

\* Searcherer#addDictionaryFileSync(filePath)
AddDictionaryFileSync ==
  /\ op.name = "none"
  /\ \E filePath \in FilePaths, read \in FileReads :
       \E a \in {ReadAndAdd(read, filePath, dicts, dictionaries)} :
          /\ Len(a.dicts) <= MaxDictionaries
          /\ dicts' = a.dicts
          /\ dictionaries' = a.dictionaries
          /\ op' = [NoOperation EXCEPT !.name = "addDictionaryFileSync",
                                       !.filePath = filePath, !.str = read,
                                       !.result = a.result, !.id = a.id]
  /\ UNCHANGED <<call, events, it, prev, stopped,
               dictionaryType, arrays, other, reads, log, cli>>

\* Searcherer#addDictionaryFile(filePath) is called: the file is being read
AddDictionaryFile ==
  /\ op.name = "none"
  /\ \E filePath \in FilePaths :
       op' = [NoOperation EXCEPT !.name = "addDictionaryFile", !.filePath = filePath]
  /\ UNCHANGED <<dicts, dictionaries, call, events, it, prev, stopped,
               dictionaryType, arrays, other, reads, log, cli>>

\* the reading of the file has ended and addDictionaryFile goes on after its
\* await: the promise is settled
FileRead ==
  /\ op.name = "addDictionaryFile"
  /\ op.result.kind = "pending"
  /\ \E read \in FileReads :
       \E a \in {ReadAndAdd(read, op.filePath, dicts, dictionaries)} :
          /\ Len(a.dicts) <= MaxDictionaries
          /\ dicts' = a.dicts
          /\ dictionaries' = a.dictionaries
          /\ op' = [op EXCEPT !.str = read, !.result = a.result, !.id = a.id]
  /\ UNCHANGED <<call, events, it, prev, stopped,
               dictionaryType, arrays, other, reads, log, cli>>

\* the caller has the outcome of the call
Return ==
  /\ op.name # "none"
  /\ op.result.kind # "pending"
  /\ op' = NoOperation
  /\ UNCHANGED <<dicts, dictionaries, call, events, it, prev, stopped,
               dictionaryType, arrays, other, reads, log, cli>>

NextSources ==
  \/ AddDictionarySource
  \/ ParseDictionary
  \/ AddDictionaryFileSync
  \/ AddDictionaryFile
  \/ FileRead
  \/ Return

SpecSources == InitSources /\ [][NextSources]_vars

\* new Searcherer({ dictionaryType }), no call made
InitTypes ==
  /\ dicts = <<>>
  /\ dictionaries = <<>>
  /\ call = NoCall
  /\ events = <<>>
  /\ it = NoSequence
  /\ prev = NoSequence
  /\ stopped = FALSE
  /\ op = NoOperation
  /\ dictionaryType \in DictionaryTypes
  /\ arrays = <<>>
  /\ other = NoSequence
  /\ reads = <<>>
  /\ log = <<>>
  /\ cli = NoRun

NextTypes ==
  \/ AddDictionarySource
  \/ AddDictionaryFileSync
  \/ AddDictionaryFile
  \/ FileRead
  \/ Return

SpecTypes == InitTypes /\ [][NextTypes]_vars

\* ------------------------------------------------------------------------
\* A caller that holds arrays of the patterns of a Dictionary
\* ------------------------------------------------------------------------

\* An array that a caller holds: its elements, and whether it is the very
\* object in which the Dictionary keeps its patterns (a change of such an
\* array is a change of the patterns of the Dictionary).

\* the array handed to the constructor as options.patterns: the constructor
\* copies its elements into a new Set
ArgumentArray(patterns) == [elements |-> patterns, shared |-> FALSE]

\* (variant: the accessor hands out the object the patterns are kept in)
GetPatternsLive(dict) == [elements |-> dict.patterns, shared |-> TRUE]

\* get patterns(): Array.from(this[_patterns]), a new array of the patterns
\* in insertion order
GetPatterns(dict) == [elements |-> dict.patterns, shared |-> FALSE]

\* the elements of an array after a change by the caller that holds it:
\* pop() or push('a')
ChangedElements(elements, change) ==
  IF change = "pop" THEN SubSeq(elements, 1, Len(elements) - 1)
  ELSE Append(elements, <<"a">>)

\* the Dictionary after a for...of over dictionary.search(context) that takes
\* up to n Results
RECURSIVE SearchedDictionary(_, _, _, _)
SearchedDictionary(dict, context, gen, n) ==
  IF n = 0 THEN dict
  ELSE LET r == GeneratorNext(1, dict, context, gen)
       IN IF r.kind = "yield" THEN SearchedDictionary(r.dict, context, r.gen, n - 1)
          ELSE r.dict

\* const array = [...]; new Dictionary({ patterns: array }): one Dictionary,
\* and the array its caller still holds
InitPatterns ==
  /\ \E patterns \in PatternArrays :
       /\ dicts = <<NewDictionary(Null, patterns)>>
       /\ arrays = <<ArgumentArray(patterns)>>
  /\ dictionaries = <<>>
  /\ call = NoCall
  /\ events = <<>>
  /\ it = NoSequence
  /\ prev = NoSequence
  /\ stopped = FALSE
  /\ op = NoOperation
  /\ dictionaryType = "Dictionary"
  /\ other = NoSequence
  /\ reads = <<>>
  /\ log = <<>>
  /\ cli = NoRun

\* dictionary.patterns is read: the caller holds the returned array (in
\* place of the one it had from an earlier read)
CallPatterns ==
  /\ arrays' = <<arrays[1], GetPatterns(dicts[1])>>
  /\ op' = [NoOperation EXCEPT !.name = "patterns"]
  /\ UNCHANGED <<dicts, dictionaries, call, events, it, prev, stopped,
                 dictionaryType, other, reads, log, cli>>

\* dictionary.has(pattern) is called; id is 1 for true and 0 for false
CallHas ==
  /\ \E pattern \in PatternPool :
       op' = [NoOperation EXCEPT !.name = "has", !.source = Str(pattern),
                                 !.id = IF Has(dicts[1], pattern) THEN 1 ELSE 0]
  /\ UNCHANGED <<dicts, dictionaries, call, events, it, prev, stopped,
                 dictionaryType, arrays, other, reads, log, cli>>

\* the caller changes an array it holds
ChangeArray ==
  /\ \E i \in 1..Len(arrays), change \in {"pop", "push"} :
       LET changed == ChangedElements(arrays[i].elements, change)
       IN /\ change = "pop" => arrays[i].elements # <<>>
          /\ Len(changed) <= MaxPatterns
          /\ arrays' = [arrays EXCEPT ![i].elements = changed]
          /\ dicts' = IF arrays[i].shared THEN [dicts EXCEPT ![1].patterns = changed]
                      ELSE dicts
  /\ op' = [NoOperation EXCEPT !.name = "change"]
  /\ UNCHANGED <<dictionaries, call, events, it, prev, stopped,
                 dictionaryType, other, reads, log, cli>>

\* the caller searches a line with the Dictionary and takes the Results, up
\* to MaxResults of them
SearchPatterns ==
  /\ \E line \in OtherLines, caseSensitive \in BOOLEAN :
       dicts' = [dicts EXCEPT ![1] =
                   SearchedDictionary(dicts[1],
                     [line |-> line, lineNumber |-> 0, caseSensitive |-> caseSensitive],
                     NewGenerator, MaxResults)]
  /\ op' = [NoOperation EXCEPT !.name = "search"]
  /\ UNCHANGED <<dictionaries, call, events, it, prev, stopped,
                 dictionaryType, arrays, other, reads, log, cli>>

\* searcherer.addDictionary(dictionary) with the Dictionary
AddToSearcherer ==
  /\ \E a \in {AddDictionaryOf([t |-> "dictionary", v |-> 1], dicts, dictionaries)} :
       /\ dicts' = a.dicts
       /\ dictionaries' = a.dictionaries
       /\ op' = [NoOperation EXCEPT !.name = "addDictionary", !.result = a.result,
                                    !.id = a.id]
  /\ UNCHANGED <<call, events, it, prev, stopped,
                 dictionaryType, arrays, other, reads, log, cli>>

NextPatterns ==
  \/ CallPatterns
  \/ CallHas
  \/ ChangeArray
  \/ SearchPatterns
  \/ AddToSearcherer

SpecPatterns == InitPatterns /\ [][NextPatterns]_vars

\* ------------------------------------------------------------------------
\* Searching files
\* ------------------------------------------------------------------------

\* most searchFile / searchFileSync calls made
MaxCalls == 2

\* the contents of the files, as bytes: empty, "a", "aa", "A\na", and the
\* bytes C3 A1 61, which are one character and "a" in UTF-8 and three
\* characters in Latin-1
FileBuffers == {<<>>, <<97>>, <<97, 97>>, <<65, 10, 97>>, <<195, 161, 97>>}

\* what reading a file to search gives: its bytes, or an error when the
\* file cannot be read
NoBuffer == [ok |-> FALSE, buffer |-> <<>>]

BufferReads == {[ok |-> TRUE, buffer |-> b] : b \in FileBuffers} \cup {NoBuffer}

\* the character with a code point (the code points of the model)
CharOf(code) ==
  CASE code = 10 -> LF
    [] code = 13 -> CR
    [] code = 65 -> "A"
    [] code = 97 -> "a"
    [] code = 161 -> "U+00A1"
    [] code = 195 -> "U+00C3"
    [] code = 225 -> "U+00E1"
    [] OTHER -> "U+FFFD"

\* UTF-8 decoding of the bytes from position i on (the bytes of the model
\* are below 224: sequences of one and two bytes); a byte that starts no
\* sequence decodes to U+FFFD
RECURSIVE Utf8Decode(_, _)
Utf8Decode(buffer, i) ==
  IF i > Len(buffer) THEN <<>>
  ELSE IF buffer[i] < 128 THEN <<CharOf(buffer[i])>> \o Utf8Decode(buffer, i + 1)
  ELSE IF /\ buffer[i] \in 194..223
          /\ i < Len(buffer)
          /\ buffer[i + 1] \in 128..191
       THEN <<CharOf((buffer[i] - 192) * 64 + (buffer[i + 1] - 128))>>
              \o Utf8Decode(buffer, i + 2)
  ELSE <<CharOf(65533)>> \o Utf8Decode(buffer, i + 1)

\* iconv.decode(buffer, encoding): in Latin-1 every byte is the character
\* with its code
Decode(buffer, encoding) ==
  IF encoding = "latin1" THEN [i \in 1..Len(buffer) |-> CharOf(buffer[i])]
  ELSE Utf8Decode(buffer, 1)

\* the options handed to searchFile and searchFileSync
FileOptions ==
  {[encoding |-> "undefined", caseSensitive |-> "undefined"],
   [encoding |-> "latin1", caseSensitive |-> "true"]}

\* options.encoding || 'utf8'
EncodingOf(options) ==
  IF options.encoding = "undefined" THEN "utf8" ELSE options.encoding

\* the patterns of the Dictionary a Searcherer that searches files is
\* constructed with
FilePatternArrays ==
  {<<<<"a">>>>, <<<<"a">>, <<"a", "a">>>>, <<<<"(">>>>, <<<<"a">>, <<"(">>>>,
   <<<<"a", "*">>>>}

\* Searcherer#search from its first next() on, run until it returns or
\* throws (the for...of loops are synchronous); a search that goes on after
\* MaxResults Results is left at pc "lines"
RECURSIVE SearchToEnd(_, _, _, _)
SearchToEnd(c, ev, hp, dl) ==
  IF c.pc # "lines" \/ Len(c.results) >= MaxResults
  THEN [call |-> c, events |-> ev, dicts |-> hp]
  ELSE LET s == StepSearch(c, ev, hp, dl)
       IN SearchToEnd(s.call, s.events, s.dicts, dl)

\* Searcherer#[_searchFile](buffer, options): the decoded buffer is searched
SearchFileOf(buffer, options, hp, dl) ==
  LET b == BeginSearch(Decode(buffer, EncodingOf(options)), options.caseSensitive,
                       NoFilter, dl)
  IN SearchToEnd(b.call, b.events, hp, dl)

\* a call of searchFile whose file is being read
PendingRead(name, options) ==
  [name |-> name, options |-> options, state |-> "pending", read |-> NoBuffer,
   results |-> <<>>, error |-> ""]

\* the pending call once the search s of the buffer read is through: resolved with the
\* Results, rejected with the error, or running on
Settled(pending, read, s) ==
  [pending EXCEPT !.read = read,
               !.results = s.call.results,
               !.error = s.call.error,
               !.state = CASE s.call.pc = "returned" -> "resolved"
                           [] s.call.pc = "thrown" -> "rejected"
                           [] OTHER -> "running"]

\* the events ev as events of the call i
Tagged(i, ev) ==
  [k \in 1..Len(ev) |-> [call |-> i, type |-> ev[k].type, results |-> ev[k].results]]

\* (variant: 'search' is emitted when searchFile is called)
EventsBeforeReadSearch(i) == <<[call |-> i, type |-> "search", results |-> <<>>]>>

\* the events that the call i of searchFile emits before its file is read:
\* none, the search starts after the await
EventsBeforeRead(i) == <<>>

\* fs.readFile(filePath) as searchFileSync calls it, without a callback: a
\* TypeError is thrown, nothing is read
ReadFileNoCallback(pending) ==
  [pending EXCEPT !.state = "threw", !.error = "TypeError"]

\* no call of the Searcherer is running on
NoneRunning == \A i \in 1..Len(reads) : reads[i].state # "running"

\* new Searcherer({ dictionary: patterns })
InitFiles ==
  /\ \E patterns \in FilePatternArrays : dicts = <<NewDictionary(Null, patterns)>>
  /\ dictionaries = <<1>>
  /\ call = NoCall
  /\ events = <<>>
  /\ it = NoSequence
  /\ prev = NoSequence
  /\ stopped = FALSE
  /\ op = NoOperation
  /\ dictionaryType = "Dictionary"
  /\ arrays = <<>>
  /\ other = NoSequence
  /\ reads = <<>>
  /\ log = <<>>
  /\ cli = NoRun

\* Searcherer#searchFile(filePath, options) is called: the file is being read
SearchFile ==
  /\ NoneRunning
  /\ Len(reads) < MaxCalls
  /\ \E options \in FileOptions :
       reads' = Append(reads, PendingRead("searchFile", options))
  /\ log' = log \o EventsBeforeRead(Len(reads) + 1)
  /\ UNCHANGED <<dicts, dictionaries, call, events, it, prev, stopped, op,
                 dictionaryType, arrays, other, cli>>

\* the reading of the file of a pending call has ended and searchFile goes on
\* after its await: the buffer is searched and the promise is settled
BufferRead ==
  /\ NoneRunning
  /\ \E i \in 1..Len(reads), read \in BufferReads :
       /\ reads[i].state = "pending"
       /\ IF ~read.ok
          THEN /\ reads' = [reads EXCEPT ![i].state = "rejected", ![i].error = "Error",
                                         ![i].read = read]
               /\ UNCHANGED <<dicts, log>>
          ELSE \E s \in {SearchFileOf(read.buffer, reads[i].options, dicts, dictionaries)} :
                 /\ reads' = [reads EXCEPT ![i] = Settled(@, read, s)]
                 /\ dicts' = s.dicts
                 /\ log' = log \o Tagged(i, s.events)
  /\ UNCHANGED <<dictionaries, call, events, it, prev, stopped, op,
                 dictionaryType, arrays, other, cli>>

\* Searcherer#searchFileSync(filePath, options) is called for a file with
\* the contents read
SearchFileSync ==
  /\ NoneRunning
  /\ Len(reads) < MaxCalls
  /\ \E options \in FileOptions, read \in BufferReads :
       reads' = Append(reads,
                  ReadFileNoCallback([PendingRead("searchFileSync", options)
                                        EXCEPT !.read = read]))
  /\ UNCHANGED <<dicts, dictionaries, call, events, it, prev, stopped, op,
                 dictionaryType, arrays, other, log, cli>>

NextFiles == SearchFile \/ BufferRead \/ SearchFileSync

SpecFiles == InitFiles /\ [][NextFiles]_vars

\* ------------------------------------------------------------------------
\* The command line interface
\* ------------------------------------------------------------------------

\* most input files of a run
MaxFiles == 2

\* the static methods of Style
StyleMethods == {"addStyle", "findStyle", "getDefaultStyle", "getStyles"}

\* the methods of a Searcherer
SearchererMethods ==
  {"addDictionary", "addDictionaryFile", "addDictionaryFileSync", "findDictionary",
   "parseDictionary", "search", "searchFile", "searchFileSync"}

\* the patterns given with --pattern
CliPatterns == {<<<<"a">>>>, <<<<"(">>>>}

\* the names given with --style (Null when the option is absent)
CliStyles == {Null, <<"s">>}

\* the input files of a run: what reading each of them gives
RECURSIVE FileLists(_)
FileLists(n) ==
  IF n = 0 THEN {<<>>}
  ELSE LET shorter == FileLists(n - 1)
       IN shorter \cup {Append(fs, read) : fs \in {l \in shorter : Len(l) = n - 1},
                                          read \in BufferReads}

\* the run ends with an error: the promise of parse is rejected
Failed(run, error) == [run EXCEPT !.state = "ended", !.error = error]

\* the for...of loop of _searchFiles from the i-th file on, with the
\* Dictionary objects hp of its Searcherer: each file is searched with await
\* searcherer.searchFile, and its Results are rendered by the style and
\* written to the output; nothing catches an error of a search.
\* SearchedFileOf goes on after the search s of the i-th file.
RECURSIVE SearchFilesFrom(_, _, _)
RECURSIVE SearchedFileOf(_, _, _)
SearchFilesFrom(run, i, hp) ==
  IF i > Len(run.files) THEN [run EXCEPT !.state = "ended"]
  ELSE IF ~run.files[i].ok THEN Failed(run, "Error")
  ELSE SearchedFileOf(run, i,
         SearchFileOf(run.files[i].buffer,
                      [encoding |-> "utf8",
                       caseSensitive |-> IF run.caseSensitive THEN "true" ELSE "false"],
                      hp, <<1>>))

SearchedFileOf(run, i, s) ==
  IF s.call.pc # "returned" THEN Failed(run, s.call.error)
  ELSE SearchFilesFrom(
         [run EXCEPT !.searched = Append(@, i),
                     !.output = Append(@, [file |-> i, results |-> s.call.results])],
         i + 1, s.dicts)

\* CLI#[_searchFiles](filePaths, options): a new Searcherer, register of the
\* patterns, then the loop over the files.  A Searcherer has no method
\* register, so the call throws a TypeError.
SearchFiles(run) ==
  IF "register" \notin SearchererMethods THEN Failed(run, "TypeError")
  ELSE SearchFilesFrom(run, 1, <<NewDictionary(Null, run.patterns)>>)

\* CLI#parse(args) for arguments that name input files: the style is looked
\* up with Style.find, without --style with Style.getDefault, then the files
\* are searched.  Style has neither method, so the call throws a TypeError.
CLIParse(run) ==
  IF (IF run.style = Null THEN "getDefault" ELSE "find") \notin StyleMethods
  THEN Failed(run, "TypeError")
  ELSE SearchFiles(run)

\* no run of the command line interface
InitCLI ==
  /\ dicts = <<>>
  /\ dictionaries = <<>>
  /\ call = NoCall
  /\ events = <<>>
  /\ it = NoSequence
  /\ prev = NoSequence
  /\ stopped = FALSE
  /\ op = NoOperation
  /\ dictionaryType = "Dictionary"
  /\ arrays = <<>>
  /\ other = NoSequence
  /\ reads = <<>>
  /\ log = <<>>
  /\ cli = NoRun

\* the command line interface is run with input files, up to the end of
\* CLI#parse
RunCLI ==
  /\ cli.state = "none"
  /\ \E patterns \in CliPatterns, caseSensitive \in BOOLEAN, style \in CliStyles,
        files \in {l \in FileLists(MaxFiles) : l # <<>>} :
       cli' = CLIParse([NoRun EXCEPT !.patterns = patterns,
                                     !.caseSensitive = caseSensitive,
                                     !.style = style, !.files = files])
  /\ UNCHANGED <<dicts, dictionaries, call, events, it, prev, stopped, op,
                 dictionaryType, arrays, other, reads, log>>

\* the process of the run has ended
Exit ==
  /\ cli.state = "ended"
  /\ cli' = NoRun
  /\ UNCHANGED <<dicts, dictionaries, call, events, it, prev, stopped, op,
                 dictionaryType, arrays, other, reads, log>>

NextCLI == RunCLI \/ Exit

SpecCLI == InitCLI /\ [][NextCLI]_vars

\* ------------------------------------------------------------------------
\* Properties of Searcherer#search
\* ------------------------------------------------------------------------

\* the call was made with a text that is searched
SearchedText == call.value \notin {Null, <<>>}

\* the position of the Dictionary object d in the Set of the Searcherer
Position(d) == CHOOSE k \in 1..Len(dictionaries) : dictionaries[k] = d

\* the position of the pattern of the Result r in the Set of its Dictionary
PatternIndex(r) ==
  CHOOSE k \in 1..Len(dicts[r.dictionary].patterns) :
    dicts[r.dictionary].patterns[k] = r.pattern

\* the lines of the text of the call, split where a line break is
TextLines == Split(call.value)

\* C1: every Result of a search satisfies
\* line.substring(columnNumber, columnNumber + match.length) = match, in
\* both case-sensitivity modes.
C1_ResultSubstring ==
  \A i \in 1..Len(call.results) :
    LET r == call.results[i]
    IN Substring(r.line, r.columnNumber, r.columnNumber + Len(r.match)) = r.match

\* a returned Result that starts after column 0 and is shorter than its line
C1_Witness ==
  /\ call.pc = "returned"
  /\ \E i \in 1..Len(call.results) :
       /\ call.results[i].columnNumber > 0
       /\ Len(call.results[i].match) = 2
       /\ Len(call.results[i].line) = 3

\* C2: in the list of a search, lineNumber never decreases from one Result
\* to the next, and among the Results of one line every Result of a
\* dictionary added earlier comes before every Result of one added later.
C2_LineThenDictionaryOrder ==
  \A i, j \in 1..Len(call.results) :
    i < j =>
      LET a == call.results[i]
          b == call.results[j]
      IN /\ a.lineNumber <= b.lineNumber
         /\ a.lineNumber = b.lineNumber => Position(a.dictionary) <= Position(b.dictionary)

\* a returned list with Results of two lines and, on one line, of two
\* dictionaries
C2_Witness ==
  /\ call.pc = "returned"
  /\ \E i, j \in 1..Len(call.results) :
       call.results[i].lineNumber < call.results[j].lineNumber
  /\ \E i, j \in 1..Len(call.results) :
       /\ call.results[i].lineNumber = call.results[j].lineNumber
       /\ call.results[i].dictionary # call.results[j].dictionary

\* C3 as stated: among the Results of one line and one dictionary,
\* columnNumber is ascending in list order, also for a dictionary that holds
\* several patterns.
C3_ColumnsAscendPerDictionary ==
  \A i, j \in 1..Len(call.results) :
    LET a == call.results[i]
        b == call.results[j]
    IN i < j /\ a.lineNumber = b.lineNumber /\ a.dictionary = b.dictionary
         => a.columnNumber <= b.columnNumber

\* C3, amended: among the Results of one line and one dictionary, the
\* Results come in the order of the dictionary's patterns, and among those
\* of one pattern columnNumber is ascending: it never decreases, and it
\* increases after every match that is not empty.
C3_ColumnsAscendPerPattern ==
  \A i, j \in 1..Len(call.results) :
    LET a == call.results[i]
        b == call.results[j]
    IN i < j /\ a.lineNumber = b.lineNumber /\ a.dictionary = b.dictionary
         => /\ PatternIndex(a) <= PatternIndex(b)
            /\ a.pattern = b.pattern =>
                 /\ a.columnNumber <= b.columnNumber
                 /\ a.match # <<>> => a.columnNumber < b.columnNumber

\* a returned list in which one dictionary has, on one line, two Results of
\* one pattern and a Result of a second pattern
C3_Witness ==
  /\ call.pc = "returned"
  /\ \E i, j, k \in 1..Len(call.results) :
       LET a == call.results[i]
           b == call.results[j]
           c == call.results[k]
       IN /\ i < j /\ j < k
          /\ a.lineNumber = b.lineNumber /\ b.lineNumber = c.lineNumber
          /\ a.dictionary = b.dictionary /\ b.dictionary = c.dictionary
          /\ a.pattern = b.pattern /\ b.pattern # c.pattern

\* the 'result' events of a list of Results
ResultEvents(results) ==
  [i \in 1..Len(results) |-> [type |-> "result", results |-> <<results[i]>>]]

\* C4: the events of a search of a non-empty text that completes are one
\* 'search', then one 'result' per returned Result in the order of the
\* returned list, then one 'end' whose results are the returned list.
C4_EventsOfCompletedSearch ==
  call.pc = "returned" /\ SearchedText =>
    events = <<[type |-> "search", results |-> <<>>]>>
               \o ResultEvents(call.results)
               \o <<[type |-> "end", results |-> call.results]>>

\* a completed search that returned two Results or more
C4_Witness ==
  /\ call.pc = "returned"
  /\ Len(call.results) >= 2
  /\ Len(events) >= 4

\* C5: a search of a text that is null, undefined or empty returns an empty
\* list and emits no event, whatever the dictionaries are.
C5_NoTextNoEvents ==
  call.pc # "idle" /\ ~SearchedText =>
    /\ call.pc = "returned"
    /\ call.results = <<>>
    /\ events = <<>>

\* a search of the empty string that returned while a dictionary of the
\* Searcherer holds a pattern that does not compile
C5_Witness ==
  /\ call.pc = "returned"
  /\ call.value = <<>>
  /\ \E k \in 1..Len(dictionaries) :
       \E n \in 1..Len(dicts[dictionaries[k]].patterns) :
         dicts[dictionaries[k]].patterns[n] = <<"(">>

\* the search of c run to its end (or up to MaxResults results)
RECURSIVE RunSearch(_, _, _, _)
RunSearch(c, ev, hp, dl) ==
  IF c.pc # "lines" \/ Len(c.results) >= MaxResults THEN c
  ELSE LET s == StepSearch(c, ev, hp, dl)
       IN RunSearch(s.call, s.events, s.dicts, dl)

\* the search of the call made without a filter
UnfilteredSearch ==
  LET b == BeginSearch(call.value, IF call.caseSensitive THEN "true" ELSE "false",
                       NoFilter, dictionaries)
  IN RunSearch(b.call, b.events, dicts, dictionaries)

\* the Results of a list that come from the dictionaries a filter accepts
Accepted(results, filter) ==
  LET Keep(r) == r.dictionary \in filter.accepts
  IN SelectSeq(results, Keep)

\* C6: a search with options.filter (here a predicate that returns true for
\* a dictionary of the Searcherer) returns the Results that the same search
\* without a filter returns, restricted to the dictionaries for which the
\* predicate returns true.
C6_FilterRestrictsResults ==
  /\ call.pc \in {"returned", "thrown"}
  /\ SearchedText
  /\ call.filter.given
  /\ \E k \in 1..Len(dictionaries) : dictionaries[k] \in call.filter.accepts
  /\ UnfilteredSearch.pc = "returned"
  => /\ call.pc = "returned"
     /\ call.results = Accepted(UnfilteredSearch.results, call.filter)

\* the characters c and e are the same letter, in the same or another case
SameLetter(c, e) == c = e \/ {c, e} = {"a", "A"}

\* the pattern has no character with a meaning of its own
IsLiteral(pattern) == \A i \in 1..Len(pattern) : pattern[i] \notin {"(", "*"}

\* the literal pattern stands in the line at index i, character for
\* character (exact) or up to letter case
OccursAt(pattern, line, i, exact) ==
  /\ i + Len(pattern) <= Len(line)
  /\ \A j \in 1..Len(pattern) :
       IF exact THEN line[i + j] = pattern[j] ELSE SameLetter(line[i + j], pattern[j])

\* the indices at which the literal pattern stands in the line
Occurrences(pattern, line, exact) ==
  {i \in 0..Len(line) : OccursAt(pattern, line, i, exact)}

\* the occurrences a scan from left to right reports when it resumes at the
\* end of each occurrence it has reported
RECURSIVE ScanOccurrences(_, _, _, _)
ScanOccurrences(pattern, line, exact, from) ==
  IF from + Len(pattern) > Len(line) THEN <<>>
  ELSE IF OccursAt(pattern, line, from, exact)
       THEN <<from>> \o ScanOccurrences(pattern, line, exact, from + Len(pattern))
  ELSE ScanOccurrences(pattern, line, exact, from + 1)

\* the Results of the returned list for the line number n, the dictionary d
\* and the pattern
ResultsFor(n, d, pattern) ==
  LET Keep(r) == r.lineNumber = n /\ r.dictionary = d /\ r.pattern = pattern
  IN SelectSeq(call.results, Keep)

\* their columns, in list order
ColumnsFor(n, d, pattern) ==
  LET rs == ResultsFor(n, d, pattern)
  IN [i \in 1..Len(rs) |-> rs[i].columnNumber]

\* C7 as stated: for a literal pattern, a search that is not case-sensitive
\* reports every occurrence that equals the pattern up to letter case, and a
\* case-sensitive search reports exactly those of them that equal the pattern
\* character for character.
C7_EveryOccurrenceReported ==
  call.pc = "returned" /\ SearchedText =>
    \A n \in 1..Len(TextLines), k \in 1..Len(dictionaries) :
      \A q \in 1..Len(dicts[dictionaries[k]].patterns) :
        LET pattern == dicts[dictionaries[k]].patterns[q]
            cols == ColumnsFor(n - 1, dictionaries[k], pattern)
        IN IsLiteral(pattern) =>
             {cols[i] : i \in 1..Len(cols)}
               = Occurrences(pattern, TextLines[n], call.caseSensitive)

\* C7, amended: for a literal pattern, a search reports the occurrences that
\* a scan of the line from left to right finds when it resumes at the end of
\* each reported occurrence (an occurrence that overlaps a reported one is
\* not reported): occurrences up to letter case when the search is not
\* case-sensitive, occurrences equal to the pattern character for character
\* when it is; each reported match is the text of its occurrence.
C7_ScannedOccurrencesReported ==
  call.pc = "returned" /\ SearchedText =>
    \A n \in 1..Len(TextLines), k \in 1..Len(dictionaries) :
      \A q \in 1..Len(dicts[dictionaries[k]].patterns) :
        LET pattern == dicts[dictionaries[k]].patterns[q]
            rs == ResultsFor(n - 1, dictionaries[k], pattern)
            scan == ScanOccurrences(pattern, TextLines[n], call.caseSensitive, 0)
        IN IsLiteral(pattern) =>
             /\ Len(rs) = Len(scan)
             /\ \A i \in 1..Len(rs) :
                  /\ rs[i].columnNumber = scan[i]
                  /\ rs[i].match = Substring(TextLines[n], scan[i], scan[i] + Len(pattern))
                  /\ call.caseSensitive => rs[i].match = pattern

\* a returned search that was not case-sensitive and reported two
\* occurrences of a pattern on a line, one of them in another case
C7_Witness ==
  /\ call.pc = "returned"
  /\ ~call.caseSensitive
  /\ \E i, j \in 1..Len(call.results) :
       /\ i < j
       /\ call.results[i].lineNumber = call.results[j].lineNumber
       /\ call.results[i].pattern = call.results[j].pattern
       /\ call.results[i].match = call.results[i].pattern
       /\ call.results[j].match # call.results[j].pattern

\* the pattern matches somewhere in the line
OccursIn(pattern, line, caseSensitive) ==
  \E i \in 0..Len(line) :
    MatchEnd(ParsePattern(pattern, 1).atoms, 1, line, i, ~caseSensitive) # -1

\* the pattern matches the whole of the text
Satisfies(text, pattern, caseSensitive) ==
  MatchEnd(ParsePattern(pattern, 1).atoms, 1, text, 0, ~caseSensitive) = Len(text)

\* C8: a search of a non-empty text that returns has, for every pattern of a
\* dictionary of the Searcherer and every line of the text in which the
\* pattern occurs, a Result with that pattern whose match satisfies the
\* pattern and whose line is that line.
C8_OccurringPatternReported ==
  call.pc = "returned" /\ SearchedText =>
    \A n \in 1..Len(TextLines), k \in 1..Len(dictionaries) :
      \A q \in 1..Len(dicts[dictionaries[k]].patterns) :
        LET pattern == dicts[dictionaries[k]].patterns[q]
        IN OccursIn(pattern, TextLines[n], call.caseSensitive) =>
             \E i \in 1..Len(call.results) :
               /\ call.results[i].pattern = pattern
               /\ call.results[i].dictionary = dictionaries[k]
               /\ call.results[i].lineNumber = n - 1
               /\ call.results[i].line = TextLines[n]
               /\ Satisfies(call.results[i].match, pattern, call.caseSensitive)

\* a returned search of a text of several lines with a pattern that occurs
\* in a line after the first
C8_Witness ==
  /\ call.pc = "returned"
  /\ SearchedText
  /\ \E n \in 2..Len(TextLines), k \in 1..Len(dictionaries) :
       \E q \in 1..Len(dicts[dictionaries[k]].patterns) :
         /\ OccursIn(dicts[dictionaries[k]].patterns[q], TextLines[n], call.caseSensitive)
         /\ ~OccursIn(dicts[dictionaries[k]].patterns[q], TextLines[1], call.caseSensitive)

\* the Dictionary holds a pattern that does not compile
HoldsInvalidPattern(dict) ==
  \E k \in 1..Len(dict.patterns) : ~ParsePattern(dict.patterns[k], 1).ok

\* C13: when a dictionary of the Searcherer holds a pattern that does not
\* compile, a search of a non-empty text returns no Result list, whatever
\* the other dictionaries gathered and wherever the dictionary stands: the
\* dictionary is not skipped, and a call without a filter that fails, fails
\* with the error of the pattern.
C13_InvalidPatternFailsWholeCall ==
  SearchedText /\ (\E k \in 1..Len(dictionaries) : HoldsInvalidPattern(dicts[dictionaries[k]]))
    => /\ call.pc # "returned"
       /\ call.pc = "thrown" /\ ~call.filter.given => call.error = "SyntaxError"

\* a search that failed with the error of the pattern after it had gathered
\* a Result of a dictionary whose patterns compile
C13_Witness ==
  /\ call.pc = "thrown"
  /\ call.error = "SyntaxError"
  /\ call.results # <<>>
  /\ \E k \in 1..Len(dictionaries) : ~HoldsInvalidPattern(dicts[dictionaries[k]])

\* the line breaks among the first n characters of the text: every CR, and
\* every LF that does not follow a CR
BreaksBefore(text, n) ==
  Cardinality({i \in 1..n : \/ text[i] = CR
                            \/ text[i] = LF /\ (i = 1 \/ text[i - 1] # CR)})

\* the line is in the text from the 1-based position p on, from one line
\* break (or the start of the text) to the next (or the end of the text)
IsLineAt(text, line, p) ==
  /\ p + Len(line) <= Len(text) + 1
  /\ SubSeq(text, p, p + Len(line) - 1) = line
  /\ p = 1 \/ text[p - 1] \in {CR, LF}
  /\ ~(p > 1 /\ p <= Len(text) /\ text[p - 1] = CR /\ text[p] = LF)
  /\ p + Len(line) = Len(text) + 1 \/ text[p + Len(line)] \in {CR, LF}

\* C22: the text is split at every CRLF, LF and CR, a CRLF being one break:
\* no line and no match of a Result holds a CR or an LF, and the line of
\* every Result is the part of the text between two breaks that has
\* lineNumber breaks before it.
C22_LinesSplitAtEveryBreak ==
  SearchedText =>
    \A n \in 1..Len(call.results) :
      LET r == call.results[n]
      IN /\ \A i \in 1..Len(r.line) : r.line[i] \notin {CR, LF}
         /\ \A i \in 1..Len(r.match) : r.match[i] \notin {CR, LF}
         /\ \E p \in 1..(Len(call.value) + 1) :
              /\ IsLineAt(call.value, r.line, p)
              /\ BreaksBefore(call.value, p - 1) = r.lineNumber

\* a search found the pattern after a CRLF, on line 1
C22_Witness ==
  /\ call.pc = "returned"
  /\ call.value = <<CR, LF, "a">>
  /\ \E n \in 1..Len(call.results) :
       call.results[n].lineNumber = 1 /\ call.results[n].line = <<"a">>

\* the position in the Set of the first dictionary with a pattern that does
\* not compile (beyond the Set when there is none)
FirstInvalid ==
  LET invalid == {k \in 1..Len(dictionaries) : HoldsInvalidPattern(dicts[dictionaries[k]])}
  IN IF invalid = {} THEN Len(dictionaries) + 1
     ELSE CHOOSE k \in invalid : \A j \in invalid : k <= j

\* C30: a search call that failed with a pattern compilation error has
\* emitted its 'search' event first and no 'end' event, and every 'result'
\* event it emitted has a Result of line 0 from a dictionary that was added
\* before the first dictionary that does not compile.
C30_FailedSearchEvents ==
  call.pc = "thrown" /\ call.error = "SyntaxError" =>
    /\ events # <<>>
    /\ events[1].type = "search"
    /\ \A n \in 2..Len(events) :
         /\ events[n].type = "result"
         /\ events[n].results[1].lineNumber = 0
         /\ Position(events[n].results[1].dictionary) < FirstInvalid

\* a search of two lines failed at its second dictionary after 'result'
\* events of the first
C30_Witness ==
  /\ call.pc = "thrown"
  /\ call.error = "SyntaxError"
  /\ Len(Split(call.value)) >= 2
  /\ Len(events) >= 2
  /\ FirstInvalid = 2

\* ------------------------------------------------------------------------
\* Properties of Dictionary#search
\* ------------------------------------------------------------------------

\* C9: when every sequence of Dictionary#search is consumed to its end, two
\* calls in a row on the same line in the same case-sensitivity mode yield
\* identical Result sequences: the second, which reuses the cached RegExp
\* objects, yields what the first did.
C9_SameSequenceTwice ==
  /\ ~stopped
  /\ it.state = "done"
  /\ prev.state = "done"
  /\ prev.line = it.line
  /\ prev.caseSensitive = it.caseSensitive
  => it.out = prev.out

\* a second sequence on the same line in the same mode that has ended after
\* two Results or more
C9_Witness ==
  /\ ~stopped
  /\ it.state = "done"
  /\ prev.state = "done"
  /\ prev.line = it.line
  /\ prev.caseSensitive = it.caseSensitive
  /\ Len(it.out) >= 2

\* the sequence of Dictionary#search(context) consumed to its end (or up to
\* MaxResults Results) on the Dictionary dict
RECURSIVE RunGenerator(_, _, _, _)
RunGenerator(dict, context, gen, out) ==
  LET r == GeneratorNext(1, dict, context, gen)
  IN IF r.kind = "yield" /\ Len(out) + 1 < MaxResults
     THEN RunGenerator(r.dict, context, r.gen, Append(out, r.result))
     ELSE IF r.kind = "yield" THEN Append(out, r.result)
     ELSE out

\* what a Dictionary with the same patterns that was never searched yields
\* for the line and the mode of the sequence s
FreshSequence(s) ==
  RunGenerator(NewDictionary(Null, dicts[1].patterns), SequenceContext(s), NewGenerator, <<>>)

\* C10: a caller may stop after any number of Results without side effects:
\* every later sequence of the Dictionary, consumed to its end, is the
\* sequence that a Dictionary never searched before yields for that line and
\* mode.
C10_StopEarlyHasNoEffect ==
  it.state = "done" => it.out = FreshSequence(it)

\* C11: the Result sequence of Dictionary#search on a line is finite, also
\* for a pattern that can match the empty string: every match of a pattern
\* starts after the previous one, so a pattern has at most one Result per
\* index 0..line.length of the line.
C11_SequenceIsFinite ==
  Len(it.out) <= Len(dicts[1].patterns) * (Len(it.line) + 1)

\* C12: a Dictionary with a pattern that does not compile (such as "(") is
\* constructed all the same, and every search over it raises the error of
\* the pattern when it is run, the first search and every later one, in
\* either case-sensitivity mode: no sequence over it yields a Result or ends
\* without the error, and no regExpMap of it is ever kept.
C12_InvalidPatternRaisedOnEverySearch ==
  HoldsInvalidPattern(dicts[1]) =>
    /\ it.gen.started => it.state = "threw"
    /\ it.state # "done"
    /\ it.out = <<>>
    /\ \A m \in BOOLEAN : ~dicts[1].regExpMaps[m].built

\* a second search in the same mode over a Dictionary with a pattern that
\* does not compile, after the first one raised the error
C12_Witness ==
  /\ HoldsInvalidPattern(dicts[1])
  /\ prev.state = "threw"
  /\ it.state = "threw"
  /\ it.caseSensitive = prev.caseSensitive

\* the sequence short is the start of the sequence long
IsPrefix(short, long) ==
  Len(short) <= Len(long) /\ SubSeq(long, 1, Len(short)) = short

\* C27: two sequences of one Dictionary in the same mode that are consumed in
\* turns each yield what they yield when consumed alone: what a sequence has
\* yielded so far is the start of what it yields alone, and all of it when
\* the sequence has ended.
C27_InterleavedSequencesAsAlone ==
  \A s \in {it, other} :
    /\ s.state \in {"open", "done"} => IsPrefix(s.out, FreshSequence(s))
    /\ s.state = "done" => s.out = FreshSequence(s)

\* every pattern of the Dictionary compiles
AllCompile == \A k \in 1..Len(dicts[1].patterns) : ~SyntaxError(dicts[1].patterns[k])

\* C28: for a Dictionary whose patterns all compile, the matcher map of each
\* mode is built exactly once, on the first search in that mode.  A mode has
\* at most one map built; a map that is built has one entry per pattern; a
\* map is built only by the first next() of a sequence in its mode, and only
\* when the mode has none; after that first next() the mode has its map; and
\* a step of a sequence in one mode leaves the map of the other mode as it
\* is.
C28_MatcherMapBuiltOncePerMode ==
  /\ [](AllCompile =>
          \A m \in BOOLEAN :
            LET map == dicts[1].regExpMaps[m]
            IN /\ map.builds <= 1
               /\ map.built <=> map.builds = 1
               /\ Len(map.lastIndex) = IF map.built THEN Len(dicts[1].patterns) ELSE 0
               /\ it.state # "none" /\ it.gen.started /\ it.caseSensitive = m => map.built)
  /\ [][AllCompile =>
          \A m \in BOOLEAN :
            /\ dicts'[1].regExpMaps[m].builds # dicts[1].regExpMaps[m].builds =>
                 /\ it.state = "open"
                 /\ ~it.gen.started
                 /\ it.caseSensitive = m
                 /\ dicts[1].regExpMaps[m].builds = 0
            /\ it.state = "none" \/ it.caseSensitive # m =>
                 dicts'[1].regExpMaps[m] = dicts[1].regExpMaps[m]]_vars

\* the maps of both modes are built, and a second sequence in the mode of the
\* sequence before it has started
C28_Witness ==
  /\ AllCompile
  /\ dicts[1].regExpMaps[TRUE].built
  /\ dicts[1].regExpMaps[FALSE].built
  /\ prev.state = "done"
  /\ it.state = "open"
  /\ it.gen.started
  /\ it.caseSensitive = prev.caseSensitive
  /\ Len(dicts[1].patterns) = 2

\* ------------------------------------------------------------------------
\* Properties of adding and parsing dictionaries
\* ------------------------------------------------------------------------

\* the calls that read a dictionary file
FileOperations == {"addDictionaryFile", "addDictionaryFileSync"}

\* the members of a sequence
Members(seq) == {seq[i] : i \in 1..Len(seq)}

\* C14: a dictionary source given as one pattern string produces a
\* Dictionary whose pattern set is exactly that one string.
C14_StringSourceIsOnePattern ==
  op.name = "addDictionary" /\ op.source.t = "string" =>
    /\ op.result.kind = "dictionary"
    /\ dicts[op.id].patterns = <<op.source.v>>

\* C15: Dictionary.parse of the JSON form of a string yields a Dictionary
\* whose pattern set is exactly that string, and so does Dictionary.parse of
\* an object whose patterns field is that string.
C15_ParsedStringIsOnePattern ==
  op.name = "parseDictionary" =>
    \A s \in PatternPool :
      op.str \in {JsonStringify(Str(s)), JsonStringify(Obj(<<Prop(PatternsKey, Str(s))>>))}
        => /\ op.result.kind = "dictionary"
           /\ op.result.dict.patterns = <<s>>

\* C16: for every non-empty name and every list of pattern strings,
\* Dictionary.parse(JSON.stringify({ name, patterns })) yields a Dictionary
\* with that name whose patterns are the members of the list, whatever the
\* defaults are.
C16_ParseRoundTrip ==
  op.name = "parseDictionary" =>
    \A name \in Names, ps \in SourceArrays \cup {<<>>} :
      op.str = JsonStringify(Obj(<<Prop(NameKey, Str(name)), Prop(PatternsKey, StrArr(ps))>>))
        => /\ op.result.kind = "dictionary"
           /\ op.result.dict.name = name
           /\ Members(op.result.dict.patterns) = Members(ps)

\* the serialized form of a name with an escaped character and of a list
\* that names a pattern twice was parsed with defaults that hold a name and
\* patterns
C16_Witness ==
  /\ op.name = "parseDictionary"
  /\ op.str = JsonStringify(Obj(<<Prop(NameKey, Str(<<"q", "\"">>)),
                                  Prop(PatternsKey, StrArr(<<<<"a", "a">>, <<"a", "a">>>>))>>))
  /\ Truthy(Get(op.defaults, NameKey))
  /\ Truthy(Get(op.defaults, PatternsKey))
  /\ op.result.kind = "dictionary"
  /\ Len(op.result.dict.patterns) = 1

\* the file contents that supply no name: a JSON string, a JSON array, an
\* object without name
NamelessContents ==
  {JsonStringify(x) : x \in {y \in JsonValues :
     y.t \in {"string", "array"} \/ (y.t = "object" /\ Get(y, NameKey).t = "undefined")}}

\* C17: a Dictionary added by addDictionaryFile or addDictionaryFileSync
\* from a file whose content supplies no name is named by the base name of
\* the file (w for the paths w and d/w).
C17_FileBaseNameIsDefaultName ==
  /\ op.name \in FileOperations
  /\ op.result.kind = "dictionary"
  /\ op.str \in NamelessContents
  => dicts[op.id].name = <<"w">>

\* C18: Dictionary.parse returns null, without raising, for a string that is
\* null or undefined, empty, or the JSON form of null or of the empty
\* string; so addDictionaryFile of a file without data resolves to null.
C18_NoDataGivesNull ==
  /\ op.name = "parseDictionary"
       /\ op.str \in {Null, <<>>, JsonStringify(JsNull), JsonStringify(Str(<<>>))}
     => op.result.kind = "null"
  /\ op.name \in FileOperations /\ op.result.kind # "pending" /\ op.str = <<>>
     => op.result.kind = "null"

\* C19: Dictionary.parse fails with a parse error for every input that does
\* not decode to a string, an array of strings or an object: a text that is
\* not JSON, a JSON number, a JSON boolean; it returns no Dictionary for it.
C19_UnsupportedShapeFails ==
  /\ op.name = "parseDictionary"
  /\ op.str \in {<<"a">>, <<"[">>, <<"{", "\"", "a", "\"", "}">>,
                 JsonStringify(Num(0)), JsonStringify(Num(1)), JsonStringify(Bool(TRUE))}
  => op.result.kind = "throw"

\* what reading the file and parsing what was read comes to, for the file
\* operation that has ended with o
ReadAndParsed(o) ==
  IF o.str = Unreadable THEN Throws("Error")
  ELSE DictionaryParse(o.str, Obj(<<Prop(NameKey, Str(Basename(o.filePath)))>>))

\* C20: a step that ends addDictionaryFile or addDictionaryFileSync returns
\* the parsed Dictionary and adds it, as a new object at the end of the Set,
\* when the parsing gave one; it returns null when the parsing gave null
\* and fails when the reading or the parsing failed, and in these two cases
\* the Set and the dictionaries are as before.
C20_AddDictionaryFileFrame ==
  [][op' # op /\ op'.name \in FileOperations /\ op'.result.kind # "pending" =>
       /\ op'.result = ReadAndParsed(op')
       /\ IF op'.result.kind = "dictionary"
          THEN /\ op'.id = Len(dicts) + 1
               /\ dicts' = Append(dicts, op'.result.dict)
               /\ dictionaries' = Append(dictionaries, op'.id)
          ELSE /\ op'.id = 0
               /\ dicts' = dicts
               /\ dictionaries' = dictionaries]_vars

\* addDictionaryFile has added the Dictionary of its file to a Searcherer
\* that held a dictionary before
C20_Witness ==
  /\ op.name = "addDictionaryFile"
  /\ op.result.kind = "dictionary"
  /\ Len(dictionaries) = 2
  /\ dictionaries[2] = op.id

\* no value is twice in the sequence
NoDuplicates(seq) == \A i, j \in 1..Len(seq) : seq[i] = seq[j] => i = j

\* every pattern of the dictionaries of the Searcherer is a literal
OnlyLiterals ==
  \A i \in 1..Len(dictionaries) :
    \A k \in 1..Len(dicts[dictionaries[i]].patterns) :
      IsLiteral(dicts[dictionaries[i]].patterns[k])

\* what the Searcherer as it is returns for a search of the text "a"
SearchOfA ==
  LET b == BeginSearch(<<"a">>, "false", NoFilter, dictionaries)
  IN RunSearch(b.call, b.events, dicts, dictionaries)

\* C21: the dictionaries of the Searcherer are unique by identity and in the
\* order of their first insertion.  No object is twice in the Set, and
\* after an addDictionary call a search of "a" has one Result for every
\* object of the Set that holds the pattern "a", also where two objects have
\* the same name and patterns; no
\* step removes or moves a member; addDictionary returns the object that is
\* in the Set, for a Dictionary instance the instance it was given, and adds
\* it at the end when, and only when, it is not a member yet.
C21_DictionariesUniqueInInsertionOrder ==
  /\ [](/\ NoDuplicates(dictionaries)
        /\ op.name = "addDictionary" /\ OnlyLiterals =>
             LET searched == SearchOfA
             IN /\ searched.pc = "returned"
                /\ \A i \in 1..Len(dictionaries) :
                     Has(dicts[dictionaries[i]], <<"a">>) =>
                       Cardinality({n \in 1..Len(searched.results) :
                                      searched.results[n].dictionary = dictionaries[i]}) = 1)
  /\ [][/\ Len(dictionaries') >= Len(dictionaries)
        /\ SubSeq(dictionaries', 1, Len(dictionaries)) = dictionaries
        /\ op.name = "none" /\ op'.name = "addDictionary"
             /\ op'.result.kind = "dictionary" =>
             /\ op'.result.dict = dicts'[op'.id]
             /\ op'.id \in Members(dictionaries')
             /\ op'.source.t = "dictionary" =>
                  /\ op'.id = op'.source.v
                  /\ dicts' = dicts
             /\ dictionaries' = IF op'.id \in Members(dictionaries) THEN dictionaries
                                ELSE Append(dictionaries, op'.id)]_vars

\* a Dictionary of the Set was added again while the Set holds a second
\* Dictionary of the same name, both with the pattern "a"
C21_Witness ==
  /\ op.name = "addDictionary"
  /\ op.source.t = "dictionary"
  /\ Len(dictionaries) = 2
  /\ op.id = dictionaries[1]
  /\ dicts[dictionaries[1]].name = dicts[dictionaries[2]].name
  /\ Has(dicts[dictionaries[1]], <<"a">>)
  /\ Has(dicts[dictionaries[2]], <<"a">>)

\* C23: the pattern set of a constructed Dictionary never changes.  No step
\* (a search, has, patterns, addDictionary, a change of the array that was
\* handed to the constructor or of an array that the patterns accessor
\* returned) changes the patterns of the Dictionary; has(p) tells whether p
\* is one of them, and patterns returns them in their order.
C23_PatternSetNeverChanges ==
  [][/\ dicts'[1].patterns = dicts[1].patterns
     /\ op'.name = "has" =>
          (op'.id = 1 <=> op'.source.v \in Members(dicts[1].patterns))
     /\ op'.name = "patterns" => arrays'[2].elements = dicts[1].patterns]_vars

\* the array handed to the constructor and an array returned by patterns
\* were both changed, the Dictionary was searched and added to a Searcherer,
\* and has was called for a pattern of the Dictionary
C23_Witness ==
  /\ op.name = "has"
  /\ op.id = 1
  /\ Len(arrays) = 2
  /\ Len(arrays[1].elements) > Len(dicts[1].patterns)
  /\ arrays[2].elements # dicts[1].patterns
  /\ dicts[1].regExpMaps[TRUE].built
  /\ dictionaries = <<1>>

\* the object is an instance of the class: of its own class, and of
\* Dictionary, which every class of the model extends
InstanceOf(object, type) == object.type = type \/ type = "Dictionary"

\* C25: every Dictionary that the Searcherer creates, from raw patterns
\* handed to addDictionary or from a dictionary file, is an instance of the
\* dictionaryType the Searcherer was constructed with.
C25_CreatedDictionariesAreOfDictionaryType ==
  \A d \in 1..Len(dicts) : InstanceOf(dicts[d], dictionaryType)

\* ------------------------------------------------------------------------
\* Properties of searching files
\* ------------------------------------------------------------------------

\* what search returns or throws for the bytes of the file of the call,
\* decoded with options.encoding, utf8 when there is none
SearchOfDecoded(read) ==
  LET b == BeginSearch(Decode(read.read.buffer,
                              IF read.options.encoding = "undefined" THEN "utf8"
                              ELSE read.options.encoding),
                       read.options.caseSensitive, NoFilter, dictionaries)
  IN RunSearch(b.call, b.events, dicts, dictionaries)

\* C24: for every readable file, searchFileSync returns the Result list that
\* search returns for the decoded bytes of the file, and the promise of
\* searchFile resolves with that list.
C24_FileSearchesReturnSearchOfDecoded ==
  \A i \in 1..Len(reads) :
    /\ reads[i].state \notin {"pending", "running"}
    /\ reads[i].read.ok
    /\ SearchOfDecoded(reads[i]).pc = "returned"
    => /\ reads[i].state \in {"resolved", "returned"}
       /\ reads[i].results = SearchOfDecoded(reads[i]).results

\* the events of the call i, in the order of the log
Block(i) == SelectSeq(log, LAMBDA e : e.call = i)

\* the events of the call i are next to each other in the log
Contiguous(i) ==
  \A j, l \in 1..Len(log) :
    j < l /\ log[j].call = i /\ log[l].call = i =>
      \A k \in j..l : log[k].call = i

\* the events are 'search', any number of 'result', 'end'
IsSearchResultsEnd(block) ==
  /\ Len(block) >= 2
  /\ block[1].type = "search"
  /\ block[Len(block)].type = "end"
  /\ \A k \in 2..(Len(block) - 1) : block[k].type = "result"

\* the call was given a file that could be read and that does not decode to
\* the empty text
SearchedFile(read) ==
  /\ read.read.ok
  /\ Decode(read.read.buffer,
            IF read.options.encoding = "undefined" THEN "utf8"
            ELSE read.options.encoding) # <<>>

\* C29 as stated: the events of each searchFile call form one contiguous
\* block 'search', 'result'*, 'end' (checked for the settled calls of files
\* that were read and are not empty).
C29_EveryCallSearchResultsEnd ==
  \A i \in 1..Len(reads) :
    /\ reads[i].name = "searchFile"
    /\ reads[i].state \in {"resolved", "rejected"}
    /\ SearchedFile(reads[i])
    => Contiguous(i) /\ IsSearchResultsEnd(Block(i))

\* C29, amended: in every order in which the reads of the pending searchFile
\* calls end, the events of each call are one contiguous block.  A call has
\* no event before its file is read, nor when the file cannot be read or
\* decodes to the empty text; otherwise its block starts with 'search' and
\* goes on with 'result' events; 'end' is the last event of the block of a
\* call that resolved, with the Results of the 'result' events in order, and
\* the block of a call that was rejected has no 'end'.
C29_CallsNeverInterleave ==
  \A i \in {j \in 1..Len(reads) : reads[j].name = "searchFile"} :
    LET block == Block(i)
    IN /\ Contiguous(i)
       /\ reads[i].state = "pending" \/ ~SearchedFile(reads[i]) => block = <<>>
       /\ reads[i].state # "pending" /\ SearchedFile(reads[i]) =>
            /\ block # <<>>
            /\ block[1].type = "search"
            /\ \A k \in 2..Len(block) :
                 \/ block[k].type = "result"
                 \/ block[k].type = "end" /\ k = Len(block)
       /\ reads[i].state = "resolved" /\ SearchedFile(reads[i]) =>
            /\ IsSearchResultsEnd(block)
            /\ block[Len(block)].results = reads[i].results
            /\ Len(block) = Len(reads[i].results) + 2
            /\ \A k \in 1..Len(reads[i].results) :
                 block[k + 1].results = <<reads[i].results[k]>>
       /\ reads[i].state = "rejected" =>
            \A k \in 1..Len(block) : block[k].type # "end"

\* two searchFile calls were pending at the same time, the file of the
\* second was read first, and both resolved with Results
C29_Witness ==
  /\ Len(reads) = 2
  /\ \A i \in 1..2 : /\ reads[i].name = "searchFile"
                     /\ reads[i].state = "resolved"
                     /\ reads[i].results # <<>>
  /\ log[1].call = 2
  /\ log[Len(log)].call = 1

\* ------------------------------------------------------------------------
\* Properties of the command line interface
\* ------------------------------------------------------------------------

\* the search of the i-th input file of the run fails: the file cannot be
\* read, or its search throws
FileFails(i) ==
  \/ ~cli.files[i].ok
  \/ SearchFileOf(cli.files[i].buffer,
                  [encoding |-> "utf8",
                   caseSensitive |-> IF cli.caseSensitive THEN "true" ELSE "false"],
                  <<NewDictionary(Null, cli.patterns)>>, <<1>>).call.pc # "returned"

\* C26: when the run has several input files and the search of one of them
\* fails, every other file is searched and its Result list is written to the
\* output.
C26_OtherFilesStillSearched ==
  /\ cli.state = "ended"
  /\ Len(cli.files) >= 2
  /\ \E i \in 1..Len(cli.files) : FileFails(i)
  => \A i \in 1..Len(cli.files) :
       ~FileFails(i) =>
         /\ i \in Members(cli.searched)
         /\ \E k \in 1..Len(cli.output) : cli.output[k].file = i

====
